---- MODULE Spec2Model ----
(***************************************************************************)
(* Smart-meter ingestion backend: the admission controller                 *)
(* (backend/rate_limiter.py) and the POST /submitReading pipeline          *)
(* (backend/app.py, backend/init_db.py, backend/utils.py).                 *)
(*                                                                         *)
(* Time is in whole seconds.  Scores are integers in units of 1/10000, so  *)
(* that the three-decimal rounding of the HTTP response is observable.     *)
(* The statistics counters (RateLimiter.stats, request_stats) and the      *)
(* console output are observability only and are not part of the state.    *)
(***************************************************************************)
EXTENDS Integers, Sequences, FiniteSets, TLC

VARIABLES
    now,              \* the wall clock, time.time()
    ticks,            \* how often the clock has advanced
    clients,          \* RateLimiter.clients:      client ip -> ClientInfo
    whitelist,        \* RateLimiter.whitelist
    blacklist,        \* RateLimiter.blacklist
    custom_rules,     \* RateLimiter.custom_rules: client ip -> RateLimitRule
    call,             \* the rate_limit_check wrappers in progress (SpecRL)
    ncalls,           \* wrappers started so far (SpecRL)
    req,              \* the submit_reading handlers, one per worker thread
    nreq,             \* requests received so far
    readings,         \* the readings table, in insertion (id) order
    ids_seen,         \* readings the IDS service has analysed
    forensic_seen,    \* readings the forensic analyzer has added to a profile
    published,        \* events handed to SSEPublisher.publish, in order
    subscribers,      \* SSEPublisher.subscribers: stream name -> list of queues
    queues,           \* the queue of each observer's generator
    streams,          \* the stream each observer's generator serves, or "none"
    nevents,          \* events published so far (SpecSSE)
    bayes,            \* the IDS service's state for one source (SpecDet)
    profile,          \* the forensic analyzer's profile of that source (SpecDet)
    feed,             \* the readings of that source analysed so far (SpecDet)
    ens               \* the ensemble's weights and last result (SpecEns)

vars == <<now, ticks, clients, whitelist, blacklist, custom_rules, call, ncalls,
          req, nreq, readings, ids_seen, forensic_seen, published,
          subscribers, queues, streams, nevents, bayes, profile, feed, ens>>

rlVars   == <<clients, whitelist, blacklist, custom_rules>>
pipeVars == <<req, nreq, readings, ids_seen, forensic_seen, published>>
sseVars  == <<subscribers, queues, streams, nevents>>
detVars  == <<bayes, profile, feed>>
ensVars  == <<ens>>

----------------------------------------------------------------------------
(* Bounds of the model *)

MaxTicks == 2            \* clock advances per behaviour
MaxCalls == 3            \* rate_limit_check calls per behaviour (SpecRL)
MaxReq   == 2            \* requests per behaviour (Spec)
MaxSeq   == 2            \* sequence numbers 1..MaxSeq are submitted

Clients  == {"ip1", "ip2"}
Callers  == {"w1"}
Managed  == {"ip2"}         \* clients the operator lists or gives a custom rule
Dt       == {1, 300, 3601}   \* the clock advances by one of these

----------------------------------------------------------------------------
(* backend/rate_limiter.py *)

default_rule ==
    [requests_per_minute |-> 60, burst_size |-> 10, window_size |-> 60,
     penalty_duration |-> 300, enabled |-> TRUE]

\* Rules an operator may install with add_custom_rule.
CustomRules ==
    { [requests_per_minute |-> 1, burst_size |-> 1, window_size |-> 600,
       penalty_duration |-> 300, enabled |-> TRUE],
      [requests_per_minute |-> 5, burst_size |-> 0, window_size |-> 60,
       penalty_duration |-> 300, enabled |-> TRUE],
      [requests_per_minute |-> 1, burst_size |-> 1, window_size |-> 60,
       penalty_duration |-> 300, enabled |-> FALSE] }

NewClientInfo ==
    [request_count |-> 0, last_request |-> 0, penalty_until |-> 0,
     burst_tokens |-> default_rule.burst_size, request_history |-> <<>>,
     violation_count |-> 0, last_violation |-> 0]

\* _get_or_create_client: the table with a record for c.
GetOrCreateClient(cls, c) ==
    IF c \in DOMAIN cls THEN cls
    ELSE [x \in DOMAIN cls \cup {c} |-> IF x = c THEN NewClientInfo ELSE cls[x]]

PutClient(cls, c, info) ==
    [x \in DOMAIN cls \cup {c} |-> IF x = c THEN info ELSE cls[x]]

\* _cleanup_request_history that drops nothing (the mutant of C7).
CleanupNothing(hist, current_time, window_size) == hist

\* _cleanup_request_history: pop from the left while the head is older than
\* the cutoff.
RECURSIVE CleanupRequestHistory(_, _, _)
CleanupRequestHistory(hist, current_time, window_size) ==
    IF hist # <<>> /\ Head(hist) < current_time - window_size
    THEN CleanupRequestHistory(Tail(hist), current_time, window_size)
    ELSE hist

\* _apply_penalty with a penalty of thirteen times the rule's duration (the
\* mutant of C34).
ApplyPenaltyLong(info, penalty_duration, t) ==
    [info EXCEPT !.penalty_until = t + 13 * penalty_duration,
                 !.violation_count = @ + 1,
                 !.last_violation = t,
                 !.burst_tokens = 0]

\* _apply_penalty
ApplyPenalty(info, penalty_duration, t) ==
    [info EXCEPT !.penalty_until = t + penalty_duration,
                 !.violation_count = @ + 1,
                 !.last_violation = t,
                 !.burst_tokens = 0]

\* The rule is_allowed applies to c (no custom_rule argument is passed).
RuleFor(rules, c) == IF c \in DOMAIN rules THEN rules[c] ELSE default_rule

\* The rate check of is_allowed without the refill of an exhausted bucket (the
\* mutant of C32).
CheckRateNoRefill(info, rule, t) ==
    LET hist  == CleanupRequestHistory(info.request_history, t, rule.window_size)
        info1 == [info EXCEPT !.request_history = hist]
        tok   == info1.burst_tokens
    IN  IF Len(hist) >= rule.requests_per_minute
        THEN [allowed |-> FALSE,
              info |-> ApplyPenalty(info1, rule.penalty_duration, t)]
        ELSE IF tok <= 0
        THEN [allowed |-> FALSE, info |-> [info1 EXCEPT !.burst_tokens = tok]]
        ELSE [allowed |-> TRUE,
              info |-> [info1 EXCEPT !.burst_tokens = tok - 1,
                                     !.request_history = Append(hist, t),
                                     !.last_request = t,
                                     !.request_count = @ + 1]]

\* The rate-limited part of is_allowed, for a client that has a record and is
\* not under penalty: [allowed, info].
CheckRate(info, rule, t) ==
    LET hist  == CleanupRequestHistory(info.request_history, t, rule.window_size)
        info1 == [info EXCEPT !.request_history = hist]
        tok   == IF info1.burst_tokens <= 0 THEN rule.burst_size
                 ELSE info1.burst_tokens
    IN  IF Len(hist) >= rule.requests_per_minute
        THEN [allowed |-> FALSE,
              info |-> ApplyPenalty(info1, rule.penalty_duration, t)]
        ELSE IF tok <= 0
        THEN [allowed |-> FALSE, info |-> [info1 EXCEPT !.burst_tokens = tok]]
        ELSE [allowed |-> TRUE,
              info |-> [info1 EXCEPT !.burst_tokens = tok - 1,
                                     !.request_history = Append(hist, t),
                                     !.last_request = t,
                                     !.request_count = @ + 1]]

\* is_allowed with the whitelist checked first (the mutant of C8).
IsAllowedWhitelistFirst(cls, wl, bl, rules, c, t) ==
    IF c \in wl THEN [allowed |-> TRUE, clients |-> cls]
    ELSE IF c \in bl THEN [allowed |-> FALSE, clients |-> cls]
    ELSE LET cls1 == GetOrCreateClient(cls, c)
             r    == CheckRate(cls1[c], RuleFor(rules, c), t)
         IN  IF t < cls1[c].penalty_until
             THEN [allowed |-> FALSE, clients |-> cls1]
             ELSE IF ~RuleFor(rules, c).enabled
             THEN [allowed |-> TRUE, clients |-> cls1]
             ELSE [allowed |-> r.allowed, clients |-> PutClient(cls1, c, r.info)]

\* is_allowed with the penalty started afresh by every request that meets it
\* (the mutant of C33).
IsAllowedPenaltyRenewed(cls, wl, bl, rules, c, t) ==
    IF c \in bl THEN [allowed |-> FALSE, clients |-> cls]
    ELSE IF c \in wl THEN [allowed |-> TRUE, clients |-> cls]
    ELSE LET cls1 == GetOrCreateClient(cls, c)
             r    == CheckRate(cls1[c], RuleFor(rules, c), t)
         IN  IF t < cls1[c].penalty_until
             THEN [allowed |-> FALSE,
                   clients |-> PutClient(cls1, c,
                                   ApplyPenalty(cls1[c],
                                                RuleFor(rules, c).penalty_duration, t))]
             ELSE IF ~RuleFor(rules, c).enabled
             THEN [allowed |-> TRUE, clients |-> cls1]
             ELSE [allowed |-> r.allowed, clients |-> PutClient(cls1, c, r.info)]

\* is_allowed: [allowed, clients], the answer and the client table it leaves.
IsAllowed(cls, wl, bl, rules, c, t) ==
    IF c \in bl THEN [allowed |-> FALSE, clients |-> cls]
    ELSE IF c \in wl THEN [allowed |-> TRUE, clients |-> cls]
    ELSE LET cls1 == GetOrCreateClient(cls, c)
             r    == CheckRate(cls1[c], RuleFor(rules, c), t)
         IN  IF t < cls1[c].penalty_until
             THEN [allowed |-> FALSE, clients |-> cls1]
             ELSE IF ~RuleFor(rules, c).enabled
             THEN [allowed |-> TRUE, clients |-> cls1]
             ELSE [allowed |-> r.allowed, clients |-> PutClient(cls1, c, r.info)]

\* get_retry_after, read at time t.
GetRetryAfter(cls, rules, c, t) ==
    IF c \in DOMAIN cls /\ t < cls[c].penalty_until
    THEN cls[c].penalty_until - t
    ELSE RuleFor(rules, c).window_size

\* A sweep that also removes the records that are exactly one hour old (the
\* mutant of C28).
DropExpiredFromTheHour(cls, current_time) ==
    [x \in {y \in DOMAIN cls : ~(current_time - cls[y].last_request >= 3600)}
        |-> cls[x]]

\* _cleanup_expired_clients: the client table it leaves.
DropExpired(cls, current_time) ==
    [x \in {y \in DOMAIN cls : ~(current_time - cls[y].last_request > 3600)}
        |-> cls[x]]

\* The record of a client after n requests admitted under the default rule,
\* all at time t: is_allowed applied n times.
RECURSIVE AdmitN(_, _, _)
AdmitN(info, n, t) ==
    IF n = 0 THEN info
    ELSE LET next == CheckRate(info, default_rule, t).info
         IN  IF next.request_count > 0 THEN AdmitN(next, n - 1, t) ELSE info

----------------------------------------------------------------------------
(* backend/utils.py, backend/init_db.py: the pure parts of the pipeline *)

Meters  == {"M1", "M2"}
Threads == {"t1", "t2"}
Senders == {"ip1"}           \* every reading arrives through the forwarder

MAX_TIMESTAMP_DRIFT == 300

RequiredFields == {"meterID", "seq", "ts", "value", "signature"}

\* if gap > 100 (forensics.py, _analyze_sequence_patterns)
GapThreshold == 100

\* Sequence numbers far ahead of any stored one: a gap of exactly the
\* threshold after an empty store, and a gap beyond it after any store.
FarSeqs == {GapThreshold, MaxSeq + GapThreshold + 1}

\* What a request body can be: the fields present, the reading, and the
\* signature: "0xsigned" is the meter's own signature over the canonical
\* payload, "0xforged" a well-formed signature of another key, "unsigned" a
\* string without the 0x prefix.  off is ts - now at the time of arrival.
Bodies ==
    [fields : {RequiredFields}, meterID : Meters, seq : 1..MaxSeq,
     off : {-300, 60}, signature : {"0xsigned"}]
    \cup
    [fields : {RequiredFields}, meterID : {"M1"}, seq : FarSeqs,
     off : {-300, 60}, signature : {"0xsigned"}]
    \cup
    [fields : {{}, RequiredFields \ {"value"}}, meterID : {"M1"}, seq : {1},
     off : {0}, signature : {"0xsigned"}]
    \cup
    [fields : {RequiredFields}, meterID : {"M1"}, seq : {1},
     off : {-301, 61}, signature : {"0xsigned"}]
    \cup
    [fields : {RequiredFields}, meterID : {"M1"}, seq : {1},
     off : {0}, signature : {"0xforged", "unsigned"}]

\* validate_reading_payload (seq, ts and value, when present, are numbers)
ValidateReadingPayload(p) ==
    /\ RequiredFields \subseteq p.fields
    /\ p.signature \in {"0xsigned", "0xforged"}

\* is_timestamp_fresh that also refuses a reading exactly max_age old (the
\* mutant of C4).
IsTimestampFreshStrict(ts, max_age_seconds, t) ==
    ~(ts <= t - max_age_seconds) /\ ~(ts > t + 60)

\* is_timestamp_fresh
IsTimestampFresh(ts, max_age_seconds, t) ==
    ~(ts < t - max_age_seconds) /\ ~(ts > t + 60)

\* verify_signature: the recovered address equals the claimed meterID.
VerifySignature(p) == p.signature = "0xsigned"

\* submit_reading up to the signature check: the error of the 400, or "ok".
Boundary(p, t) ==
    IF p.fields = {} THEN "empty-payload"
    ELSE IF ~ValidateReadingPayload(p) THEN "invalid-payload"
    ELSE IF ~IsTimestampFresh(t + p.off, MAX_TIMESTAMP_DRIFT, t) THEN "stale-timestamp"
    ELSE IF ~VerifySignature(p) THEN "invalid-signature"
    ELSE "ok"

RECURSIVE MaxOf(_)
MaxOf(S) ==
    IF S = {} THEN 0
    ELSE LET x == CHOOSE y \in S : TRUE
             m == MaxOf(S \ {x})
         IN  IF x > m THEN x ELSE m

SeqsOf(rows, m) == {rows[i].seq : i \in {j \in DOMAIN rows : rows[j].meterID = m}}

\* SELECT seq FROM readings WHERE meterID=? ORDER BY seq DESC LIMIT 1
LastSeq(rows, m) == MaxOf(SeqsOf(rows, m))

\* get_last_seq with a failed query repeated until it answers (the mutant of
\* C37).
GetLastSeqRetried(rows, m, fails) == LastSeq(rows, m)

\* get_last_seq: 0 when the source has no row and when the query fails.
GetLastSeq(rows, m, fails) == IF fails THEN 0 ELSE LastSeq(rows, m)

\* round(score, 3), the score being in units of 1/10000 (ties to even).
Round3(score) ==
    LET q == score \div 10
        r == score % 10
    IN  IF r < 5 THEN 10 * q
        ELSE IF r > 5 THEN 10 * (q + 1)
        ELSE IF q % 2 = 0 THEN 10 * q ELSE 10 * (q + 1)

\* What the IDS call can yield: a 200 with a verdict, another status, a
\* timeout after the IDS analysed the reading, or no connection.
IdsOutcomes ==
    { [kind |-> "ok", suspicious |-> FALSE, score |-> 1234, reasons |-> <<>>],
      [kind |-> "ok", suspicious |-> FALSE, score |-> 8123,
       reasons |-> <<"value-anomaly">>],
      [kind |-> "ok", suspicious |-> TRUE, score |-> 8766,
       reasons |-> <<"ids-anomaly">>],
      [kind |-> "non200", suspicious |-> TRUE, score |-> 10000,
       reasons |-> <<"processing-error">>],
      [kind |-> "timeout", suspicious |-> FALSE, score |-> 0, reasons |-> <<>>],
      [kind |-> "refused", suspicious |-> FALSE, score |-> 0, reasons |-> <<>>] }

\* submit_reading step 5: the verdict after the IDS call.
IdsVerdict(o) ==
    IF o.kind = "ok"
    THEN [suspicious |-> o.suspicious, score |-> o.score, reasons |-> o.reasons]
    ELSE [suspicious |-> FALSE, score |-> 0, reasons |-> <<>>]

Evidence(type, severity) == [evidence_type |-> type, severity |-> severity]

\* _analyze_sequence_patterns without the gap test (the mutant of C12).
AnalyzeSequencePatternsNoGap(sequence, last_seq) ==
    IF sequence <= last_seq THEN <<Evidence("sequence_rollback", 9000)>> ELSE <<>>

\* ForensicAnalyzer._analyze_sequence_patterns, for a profile of at most five
\* readings (the step-size test needs more than five).
AnalyzeSequencePatterns(sequence, last_seq) ==
    (IF sequence <= last_seq THEN <<Evidence("sequence_rollback", 9000)>> ELSE <<>>)
    \o (IF sequence - last_seq > GapThreshold
        THEN <<Evidence("large_sequence_gap", 6000)>> ELSE <<>>)

\* The summed severities the timing, value, signature and cross-meter
\* analyses can find.
ForensicOutcomes == {0, 7500, 12000}

OtherEvidence(sev) ==
    IF sev > 0 THEN <<Evidence("forensic-evidence", sev)>> ELSE <<>>

RECURSIVE SumSeverity(_)
SumSeverity(evidence_list) ==
    IF evidence_list = <<>> THEN 0
    ELSE Head(evidence_list).severity + SumSeverity(Tail(evidence_list))

EvidenceTypes(evidence_list) ==
    {evidence_list[i].evidence_type : i \in DOMAIN evidence_list}

\* ForensicAnalyzer.analyze_reading: the result for the evidence found.
ForensicResult(evidence_list) ==
    LET anomaly_score == SumSeverity(evidence_list)
    IN  [anomaly_detected |-> anomaly_score > 5000,
         anomaly_score |-> IF anomaly_score < 10000 THEN anomaly_score ELSE 10000,
         anomaly_reasons |-> [i \in DOMAIN evidence_list |->
                                 evidence_list[i].evidence_type]]

Max2(a, b) == IF a > b THEN a ELSE b

\* submit_reading step 6 taking the forensic score for the merged verdict
\* (the mutant of C36).
MergeForensicScore(v, fr) ==
    IF fr.anomaly_detected /\ ~v.suspicious
    THEN [suspicious |-> TRUE,
          score |-> fr.anomaly_score,
          reasons |-> v.reasons \o fr.anomaly_reasons]
    ELSE v

\* submit_reading step 6: the verdict after the forensic analysis.
MergeForensic(v, fr) ==
    IF fr.anomaly_detected /\ ~v.suspicious
    THEN [suspicious |-> TRUE,
          score |-> Max2(v.score, fr.anomaly_score),
          reasons |-> v.reasons \o fr.anomaly_reasons]
    ELSE v

\* store_reading's row without the verdict's flag (the mutant of C3).
RowOfNoFlag(m, seq, v) ==
    [meterID |-> m, seq |-> seq, suspicious |-> FALSE, score |-> v.score,
     reasons |-> v.reasons]

\* store_reading: the row inserted (ts, value and raw are read by no modelled
\* operation; reasons are written as JSON, NULL for an empty list, and read
\* back as that list).
RowOf(m, seq, v) ==
    [meterID |-> m, seq |-> seq, suspicious |-> v.suspicious, score |-> v.score,
     reasons |-> v.reasons]

\* store_reading that logs a failed write and returns (the mutant of C10).
StoreReadingSwallow(rows, row, fails) ==
    IF fails THEN [ok |-> TRUE, rows |-> rows]
    ELSE [ok |-> TRUE, rows |-> Append(rows, row)]

\* store_reading: the INSERT commits, or the error is raised again.
StoreReading(rows, row, fails) ==
    IF fails THEN [ok |-> FALSE, rows |-> rows]
    ELSE [ok |-> TRUE, rows |-> Append(rows, row)]

\* submit_reading with the IDS consulted before the sequence check (the
\* mutant of C5).
StageOrderScoreFirst == <<"ids", "gate", "forensics", "store", "publish">>

\* submit_reading: the stages a request passes after the signature check.
StageOrder == <<"gate", "ids", "forensics", "store", "publish">>

NextStage(s) ==
    LET i == CHOOSE j \in DOMAIN StageOrder : StageOrder[j] = s
    IN  IF i = Len(StageOrder) THEN "done" ELSE StageOrder[i + 1]

----------------------------------------------------------------------------
(* The records of the handlers in progress *)

\* The response of the handler that has not answered yet.
NoResp ==
    [ok |-> FALSE, error |-> "", last_seq |-> -1, retry_after |-> -1,
     stored_seq |-> -1, suspicious |-> FALSE, score |-> -1, reasons |-> <<>>]

\* A thread's handler: its position, the request, its locals, its response,
\* and what it has done so far:
\*   valid        the body is well-formed, fresh and signed by its meter
\*   feed_ok      on arrival the source's rows were seq 1 .. seq-1, in order
\*   solo         no other request of this source has been in flight with it
\*   true_last    the source's highest stored seq when the gate read it
\*   row          the index of the row it inserted, 0 for none
\*   npub         the number of events it published
\*   evidence     the types of the forensic evidence recorded for it
IdleReq ==
    [pc |-> "idle", client |-> "ip1", meter |-> "M1", seq |-> 0,
     valid |-> FALSE, feed_ok |-> FALSE, solo |-> TRUE, admitted |-> FALSE,
     last_seq |-> 0, true_last |-> 0, read_failed |-> FALSE,
     verdict |-> [suspicious |-> FALSE, score |-> 0, reasons |-> <<>>],
     ids_failed |-> FALSE, ids_called |-> FALSE, forensic_called |-> FALSE,
     write_failed |-> FALSE, row |-> 0, npub |-> 0,
     forensic_failed |-> FALSE, evidence |-> {},
     status |-> 0, resp |-> NoResp]

\* A handler that has answered leaves no trace: its record is kept for one
\* state only.
ReturnedReq(rq) ==
    [t \in DOMAIN rq |-> IF rq[t].pc = "done" THEN IdleReq ELSE rq[t]]

InFlight(rq, t, m) ==
    {u \in DOMAIN rq \ {t} : rq[u].pc \notin {"idle", "done"} /\ rq[u].meter = m}

RECURSIVE SeqListOf(_, _)
SeqListOf(rows, m) ==
    IF rows = <<>> THEN <<>>
    ELSE IF Head(rows).meterID = m
         THEN <<Head(rows).seq>> \o SeqListOf(Tail(rows), m)
         ELSE SeqListOf(Tail(rows), m)

\* The claim's own reading of a valid submission (spec 4.1, 4.2).
ValidBySpec(p) ==
    /\ p.fields = RequiredFields
    /\ p.signature = "0xsigned"
    /\ p.off >= -300
    /\ p.off <= 60

Answer(r, code, body) == [r EXCEPT !.pc = "done", !.status = code, !.resp = body]

----------------------------------------------------------------------------
(* backend/app.py: SSEPublisher and the stream endpoints *)

Observers == {"o1", "o2", "o3", "o4"}

\* Queue(maxsize=100)
QueueMax == 100

MeterStream(m) == "meter_" \o m

Streams == {"readings", "alerts"} \cup {MeterStream(m) : m \in Meters}

Listed(list, o) == \E i \in DOMAIN list : list[i] = o

\* list.remove(queue): the first occurrence goes, an absent queue is ignored.
RECURSIVE Remove(_, _)
Remove(list, o) ==
    IF list = <<>> THEN <<>>
    ELSE IF Head(list) = o THEN Tail(list)
    ELSE <<Head(list)>> \o Remove(Tail(list), o)

\* SSEPublisher.publish that makes room in a full queue by dropping its oldest
\* entry (the mutant of C13).
SsePublishDropOldest(subs, qs, stream_name, ev) ==
    [subscribers |-> subs,
     queues |-> [o \in DOMAIN qs |->
                   IF ~Listed(subs[stream_name], o) THEN qs[o]
                   ELSE IF Len(qs[o]) < QueueMax THEN Append(qs[o], ev)
                   ELSE Append(Tail(qs[o]), ev)]]

\* SSEPublisher.publish: put_nowait on every queue of the stream; the queues
\* that raise (Full) are then removed from the stream's list.
SsePublish(subs, qs, stream_name, ev) ==
    [subscribers |->
        [subs EXCEPT ![stream_name] =
            SelectSeq(@, LAMBDA o : Len(qs[o]) < QueueMax)],
     queues |->
        [o \in DOMAIN qs |->
            IF Listed(subs[stream_name], o) /\ Len(qs[o]) < QueueMax
            THEN Append(qs[o], ev) ELSE qs[o]]]

\* One publish after another, as submit_reading's notifications are.
RECURSIVE SsePublishAll(_, _, _)
SsePublishAll(subs, qs, evs) ==
    IF evs = <<>> THEN [subscribers |-> subs, queues |-> qs]
    ELSE LET r == SsePublish(subs, qs, Head(evs).topic, Head(evs))
         IN  SsePublishAll(r.subscribers, r.queues, Tail(evs))

\* No observer is connected.
SseIdle ==
    /\ subscribers = [sn \in Streams |-> <<>>]
    /\ queues = [o \in Observers |-> <<>>]
    /\ streams = [o \in Observers |-> "none"]
    /\ nevents = 0

\* Nothing of the IDS, the forensic analyzer or the ensemble is exercised.
DetIdle ==
    /\ bayes = [sample_count |-> 0, last_reading |-> <<>>]
    /\ profile = <<>>
    /\ feed = <<>>

EnsIdle == ens = <<>>

\* One observer is connected to each stream and has read all it was sent.
Audience ==
    ("o1" :> "readings") @@ ("o2" :> "alerts")
    @@ ("o3" :> MeterStream("M1")) @@ ("o4" :> MeterStream("M2"))

SseConnected ==
    /\ subscribers = [sn \in Streams |-> <<CHOOSE o \in Observers : Audience[o] = sn>>]
    /\ queues = [o \in Observers |-> <<>>]
    /\ streams = Audience
    /\ nevents = 0

----------------------------------------------------------------------------
(* The admission controller on its own: rate_limit_check around any handler, *)
(* the operator's calls and the background sweep.                           *)

NoInfo == [absent |-> TRUE]

InfoOf(cls, c) == IF c \in DOMAIN cls THEN cls[c] ELSE NoInfo

IdleCall ==
    [pc |-> "idle", client |-> "ip1", allowed |-> FALSE, at |-> 0,
     retry_after |-> -1, pre |-> NoInfo, post |-> NoInfo,
     wl |-> FALSE, bl |-> FALSE, rule |-> default_rule]

\* The window of a client that already had this many requests admitted at
\* time 0 (see AdmitN).
Prefill == {0, default_rule.requests_per_minute - 1}

PrefilledClients(n) ==
    IF n = 0 THEN <<>>
    ELSE [c \in {"ip1"} |-> AdmitN(NewClientInfo, n, 0)]

InitRL ==
    /\ now = 0
    /\ ticks = 0
    /\ \E n \in Prefill : clients = PrefilledClients(n)
    /\ whitelist = {}
    /\ blacklist = {}
    /\ custom_rules = <<>>
    /\ call = [w \in Callers |-> IdleCall]
    /\ ncalls = 0
    /\ req = [t \in Threads |-> IdleReq]
    /\ nreq = 0
    /\ readings = <<>>
    /\ ids_seen = {}
    /\ forensic_seen = {}
    /\ published = <<>>
    /\ SseIdle
    /\ DetIdle
    /\ EnsIdle

\* A wrapper that has returned leaves no trace: its record is kept for one
\* state only.
Returned(cs) == [w \in DOMAIN cs |-> IF cs[w].pc = "done" THEN IdleCall ELSE cs[w]]

\* rate_limit_check, first half: is_allowed(client_ip) under the lock.
RateLimitCheck(w, c) ==
    /\ call[w].pc # "retry"
    /\ ncalls < MaxCalls
    /\ LET r == IsAllowed(clients, whitelist, blacklist, custom_rules, c, now)
       IN  /\ clients' = r.clients
           /\ call' = [Returned(call) EXCEPT ![w] =
                  [pc |-> IF r.allowed THEN "done" ELSE "retry",
                   client |-> c, allowed |-> r.allowed, at |-> now,
                   retry_after |-> -1,
                   pre |-> InfoOf(clients, c), post |-> InfoOf(r.clients, c),
                   wl |-> c \in whitelist, bl |-> c \in blacklist,
                   rule |-> RuleFor(custom_rules, c)]]
    /\ ncalls' = ncalls + 1
    /\ UNCHANGED <<sseVars, detVars, ensVars, now, ticks, whitelist, blacklist, custom_rules, pipeVars>>

\* rate_limit_check, second half: the 429 body reads get_retry_after(client_ip)
\* in a second critical section, at the clock's value then.
RetryAfter(w) ==
    /\ call[w].pc = "retry"
    /\ call' = [call EXCEPT ![w].pc = "done",
                            ![w].retry_after =
                                GetRetryAfter(clients, custom_rules, call[w].client, now)]
    /\ UNCHANGED <<sseVars, detVars, ensVars, now, ticks, rlVars, ncalls, pipeVars>>

Tick(d) ==
    /\ ticks < MaxTicks
    /\ now' = now + d
    /\ ticks' = ticks + 1
    /\ call' = Returned(call)
    /\ req' = ReturnedReq(req)
    /\ UNCHANGED <<sseVars, detVars, ensVars, rlVars, ncalls, nreq, readings, ids_seen, forensic_seen, published>>

AddToWhitelist(c) ==
    /\ whitelist' = whitelist \cup {c}
    /\ call' = Returned(call)
    /\ UNCHANGED <<sseVars, detVars, ensVars, now, ticks, clients, blacklist, custom_rules, ncalls, pipeVars>>

RemoveFromWhitelist(c) ==
    /\ whitelist' = whitelist \ {c}
    /\ call' = Returned(call)
    /\ UNCHANGED <<sseVars, detVars, ensVars, now, ticks, clients, blacklist, custom_rules, ncalls, pipeVars>>

AddToBlacklist(c) ==
    /\ blacklist' = blacklist \cup {c}
    /\ call' = Returned(call)
    /\ UNCHANGED <<sseVars, detVars, ensVars, now, ticks, clients, whitelist, custom_rules, ncalls, pipeVars>>

RemoveFromBlacklist(c) ==
    /\ blacklist' = blacklist \ {c}
    /\ call' = Returned(call)
    /\ UNCHANGED <<sseVars, detVars, ensVars, now, ticks, clients, whitelist, custom_rules, ncalls, pipeVars>>

AddCustomRule(c, rule) ==
    /\ custom_rules' = [x \in DOMAIN custom_rules \cup {c} |->
                            IF x = c THEN rule ELSE custom_rules[x]]
    /\ call' = Returned(call)
    /\ UNCHANGED <<sseVars, detVars, ensVars, now, ticks, clients, whitelist, blacklist, ncalls, pipeVars>>

RemoveCustomRule(c) ==
    /\ custom_rules' = [x \in DOMAIN custom_rules \ {c} |-> custom_rules[x]]
    /\ call' = Returned(call)
    /\ UNCHANGED <<sseVars, detVars, ensVars, now, ticks, clients, whitelist, blacklist, ncalls, pipeVars>>

ResetClient(c) ==
    /\ clients' = [x \in DOMAIN clients \ {c} |-> clients[x]]
    /\ call' = Returned(call)
    /\ UNCHANGED <<sseVars, detVars, ensVars, now, ticks, whitelist, blacklist, custom_rules, ncalls, pipeVars>>

\* _cleanup_expired_clients: one run of the background sweep.
CleanupExpiredClients ==
    /\ clients' = DropExpired(clients, now)
    /\ call' = Returned(call)
    /\ UNCHANGED <<sseVars, detVars, ensVars, now, ticks, whitelist, blacklist, custom_rules, ncalls, pipeVars>>

NextRL ==
    \/ \E w \in Callers, c \in Clients : RateLimitCheck(w, c)
    \/ \E w \in Callers : RetryAfter(w)
    \/ \E d \in Dt : Tick(d)
    \/ \E c \in Managed : AddToWhitelist(c)
    \/ \E c \in Managed : RemoveFromWhitelist(c)
    \/ \E c \in Managed : AddToBlacklist(c)
    \/ \E c \in Managed : RemoveFromBlacklist(c)
    \/ \E c \in Managed, rule \in CustomRules : AddCustomRule(c, rule)
    \/ \E c \in Managed : RemoveCustomRule(c)
    \/ \E c \in Clients : ResetClient(c)
    \/ CleanupExpiredClients

SpecRL == InitRL /\ [][NextRL]_vars

----------------------------------------------------------------------------
(* backend/app.py: POST /submitReading, one handler per worker thread *)

Init ==
    /\ now = 0
    /\ ticks = 0
    /\ \E n \in Prefill : clients = PrefilledClients(n)
    /\ whitelist = {}
    /\ blacklist = {}
    /\ custom_rules = <<>>
    /\ call = [w \in Callers |-> IdleCall]
    /\ ncalls = 0
    /\ req = [t \in Threads |-> IdleReq]
    /\ nreq = 0
    /\ readings = <<>>
    /\ ids_seen = {}
    /\ forensic_seen = {}
    /\ published = <<>>
    /\ SseConnected
    /\ DetIdle
    /\ EnsIdle

\* rate_limit_check and submit_reading steps 1-3: admission, then payload,
\* timestamp and signature.
Receive(t, c, p) ==
    /\ req[t].pc \in {"idle", "done"}
    /\ nreq < MaxReq
    /\ nreq' = nreq + 1
    /\ LET a     == IsAllowed(clients, whitelist, blacklist, custom_rules, c, now)
           b     == Boundary(p, now)
           rq    == ReturnedReq(req)
           other == InFlight(rq, t, p.meterID)
           r0    == [IdleReq EXCEPT !.client = c, !.meter = p.meterID,
                                    !.seq = p.seq, !.valid = ValidBySpec(p),
                                    !.feed_ok = (SeqListOf(readings, p.meterID)
                                                   = [i \in 1..(p.seq - 1) |-> i]),
                                    !.solo = (other = {}),
                                    !.admitted = a.allowed]
           r1    == IF ~a.allowed THEN [r0 EXCEPT !.pc = "retry"]
                    ELSE IF b # "ok"
                    THEN Answer(r0, 400, [NoResp EXCEPT !.error = b])
                    ELSE [r0 EXCEPT !.pc = StageOrder[1]]
       IN  /\ clients' = a.clients
           /\ req' = [u \in Threads |->
                        IF u = t THEN r1
                        ELSE IF u \in other THEN [rq[u] EXCEPT !.solo = FALSE]
                        ELSE rq[u]]
    /\ UNCHANGED <<sseVars, detVars, ensVars, now, ticks, whitelist, blacklist, custom_rules, call, ncalls,
                   readings, ids_seen, forensic_seen, published>>

\* rate_limit_check: the 429 with get_retry_after, read after is_allowed
\* returned.
Reject429(t) ==
    /\ req[t].pc = "retry"
    /\ req' = [ReturnedReq(req) EXCEPT ![t] =
                 Answer(req[t], 429,
                        [NoResp EXCEPT !.error = "rate-limit-exceeded",
                                       !.retry_after =
                                           GetRetryAfter(clients, custom_rules,
                                                         req[t].client, now)])]
    /\ UNCHANGED <<sseVars, detVars, ensVars, now, ticks, rlVars, call, ncalls, nreq, readings, ids_seen,
                   forensic_seen, published>>

\* submit_reading step 4 rejecting only a seq below the last one (the mutant
\* of C35).
GateAllowsEqual(t, fails) ==
    /\ req[t].pc = "gate"
    /\ LET last == GetLastSeq(readings, req[t].meter, fails)
           r0   == [req[t] EXCEPT !.last_seq = last,
                                  !.true_last = LastSeq(readings, req[t].meter),
                                  !.read_failed = fails]
       IN  req' = [ReturnedReq(req) EXCEPT ![t] =
                     IF r0.seq < last
                     THEN Answer(r0, 409, [NoResp EXCEPT !.error = "non-increasing-seq",
                                                         !.last_seq = last])
                     ELSE [r0 EXCEPT !.pc = NextStage("gate")]]
    /\ UNCHANGED <<sseVars, detVars, ensVars, now, ticks, rlVars, call, ncalls, nreq, readings, ids_seen,
                   forensic_seen, published>>

\* submit_reading step 4: the sequence check against get_last_seq.
Gate(t, fails) ==
    /\ req[t].pc = "gate"
    /\ LET last == GetLastSeq(readings, req[t].meter, fails)
           r0   == [req[t] EXCEPT !.last_seq = last,
                                  !.true_last = LastSeq(readings, req[t].meter),
                                  !.read_failed = fails]
       IN  req' = [ReturnedReq(req) EXCEPT ![t] =
                     IF r0.seq <= last
                     THEN Answer(r0, 409, [NoResp EXCEPT !.error = "non-increasing-seq",
                                                         !.last_seq = last])
                     ELSE [r0 EXCEPT !.pc = NextStage("gate")]]
    /\ UNCHANGED <<sseVars, detVars, ensVars, now, ticks, rlVars, call, ncalls, nreq, readings, ids_seen,
                   forensic_seen, published>>

\* submit_reading step 5: the call of the IDS service.
CallIDS(t, o) ==
    /\ req[t].pc = "ids"
    /\ req' = [ReturnedReq(req) EXCEPT ![t] =
                 [req[t] EXCEPT !.pc = NextStage("ids"),
                                !.verdict = IdsVerdict(o),
                                !.ids_failed = (o.kind # "ok"),
                                !.ids_called = TRUE]]
    /\ ids_seen' = IF o.kind \in {"ok", "timeout"}
                   THEN ids_seen \cup {<<req[t].meter, req[t].seq>>}
                   ELSE ids_seen
    /\ UNCHANGED <<sseVars, detVars, ensVars, now, ticks, rlVars, call, ncalls, nreq, readings,
                   forensic_seen, published>>

\* submit_reading step 6 with a failed analysis counted against the reading
\* (the mutant of C31).
ForensicsFailClosed(t, sev, raises) ==
    /\ req[t].pc = "forensics"
    /\ LET evidence_list == AnalyzeSequencePatterns(req[t].seq, req[t].last_seq)
                            \o OtherEvidence(sev)
       IN  req' = [ReturnedReq(req) EXCEPT ![t] =
                     [req[t] EXCEPT !.pc = NextStage("forensics"),
                                    !.verdict =
                                        IF raises
                                        THEN [@ EXCEPT !.suspicious = TRUE]
                                        ELSE MergeForensic(@, ForensicResult(evidence_list)),
                                    !.forensic_called = TRUE,
                                    !.forensic_failed = raises,
                                    !.evidence = IF raises THEN {}
                                                 ELSE EvidenceTypes(evidence_list)]]
    /\ forensic_seen' = IF raises THEN forensic_seen
                        ELSE forensic_seen \cup {<<req[t].meter, req[t].seq>>}
    /\ UNCHANGED <<sseVars, detVars, ensVars, now, ticks, rlVars, call, ncalls, nreq, readings, ids_seen,
                   published>>

\* submit_reading step 6: forensics.analyze_reading, which adds the reading to
\* the source's profile, or raises.
Forensics(t, sev, raises) ==
    /\ req[t].pc = "forensics"
    /\ LET evidence_list == AnalyzeSequencePatterns(req[t].seq, req[t].last_seq)
                            \o OtherEvidence(sev)
       IN  req' = [ReturnedReq(req) EXCEPT ![t] =
                     [req[t] EXCEPT !.pc = NextStage("forensics"),
                                    !.verdict =
                                        IF raises THEN @
                                        ELSE MergeForensic(@, ForensicResult(evidence_list)),
                                    !.forensic_called = TRUE,
                                    !.forensic_failed = raises,
                                    !.evidence = IF raises THEN {}
                                                 ELSE EvidenceTypes(evidence_list)]]
    /\ forensic_seen' = IF raises THEN forensic_seen
                        ELSE forensic_seen \cup {<<req[t].meter, req[t].seq>>}
    /\ UNCHANGED <<sseVars, detVars, ensVars, now, ticks, rlVars, call, ncalls, nreq, readings, ids_seen,
                   published>>

\* submit_reading step 7: store_reading (the ledger mirror is off).
Store(t, fails) ==
    /\ req[t].pc = "store"
    /\ LET w == StoreReading(readings,
                             RowOf(req[t].meter, req[t].seq, req[t].verdict),
                             fails)
           r0 == [req[t] EXCEPT !.write_failed = fails,
                                !.row = IF Len(w.rows) > Len(readings)
                                        THEN Len(w.rows) ELSE 0]
       IN  /\ readings' = w.rows
           /\ req' = [ReturnedReq(req) EXCEPT ![t] =
                        IF w.ok THEN [r0 EXCEPT !.pc = NextStage("store")]
                        ELSE Answer(r0, 500, [NoResp EXCEPT !.error = "db-error"])]
    /\ UNCHANGED <<sseVars, detVars, ensVars, now, ticks, rlVars, call, ncalls, nreq, ids_seen,
                   forensic_seen, published>>

Event(topic, r) ==
    [topic |-> topic, meterID |-> r.meter, seq |-> r.seq,
     suspicious |-> r.verdict.suspicious]

\* The SSE notifications with the alert sent for every reading (the mutant of
\* C15).
NotificationsAlways(r) ==
    <<Event("readings", r), Event(MeterStream(r.meter), r), Event("alerts", r)>>

\* submit_reading, SSE notifications: the events published for a stored
\* reading, in order.
Notifications(r) ==
    <<Event("readings", r), Event(MeterStream(r.meter), r)>>
    \o (IF r.verdict.suspicious THEN <<Event("alerts", r)>> ELSE <<>>)

\* submit_reading step 8 and the SSE notifications: the events go to the
\* readings topic, the meter's topic and, if suspicious, the alerts topic; then
\* the 200.
Publish(t) ==
    /\ req[t].pc = "publish"
    /\ LET r   == req[t]
           evs == Notifications(r)
           sse == SsePublishAll(subscribers, queues, evs)
       IN  /\ published' = published \o evs
           /\ subscribers' = sse.subscribers
           /\ queues' = sse.queues
           /\ req' = [ReturnedReq(req) EXCEPT ![t] =
                        Answer([r EXCEPT !.npub = Len(evs)], 200,
                               [NoResp EXCEPT !.ok = TRUE,
                                              !.stored_seq = r.seq,
                                              !.suspicious = r.verdict.suspicious,
                                              !.score = Round3(r.verdict.score),
                                              !.reasons = r.verdict.reasons])]
    /\ UNCHANGED <<streams, nevents, detVars, ensVars, now, ticks, rlVars, call, ncalls, nreq, readings, ids_seen,
                   forensic_seen>>

\* The requests of Spec are handled within one second of the clock: what the
\* passing of time does to admission is the matter of SpecRL.
Next ==
    \/ \E t \in Threads, c \in Senders, p \in Bodies : Receive(t, c, p)
    \/ \E t \in Threads : Reject429(t)
    \/ \E t \in Threads, fails \in BOOLEAN : Gate(t, fails)
    \/ \E t \in Threads, o \in IdsOutcomes : CallIDS(t, o)
    \/ \E t \in Threads, sev \in ForensicOutcomes, raises \in BOOLEAN :
           Forensics(t, sev, raises)
    \/ \E t \in Threads, fails \in BOOLEAN : Store(t, fails)
    \/ \E t \in Threads : Publish(t)

Spec == Init /\ [][Next]_vars

----------------------------------------------------------------------------
(* Claims about the admission controller (checked under SpecRL) *)

Finished(k) == k.pc = "done"

\* This call found the window full and applied the penalty.
Penalised(k) ==
    /\ k.pre # NoInfo
    /\ k.post # NoInfo
    /\ ~k.allowed
    /\ k.post.violation_count = k.pre.violation_count + 1

\* C6 (as claimed): under the default rule, the 429 answered to the request
\* that found the sliding window full carries retry_after equal to the
\* configured penalty duration (the client's record being untouched between
\* the rejection and the reading of retry_after).
C6_RetryAfterIsPenaltyDuration ==
    \A w \in Callers :
        LET k == call[w] IN
        (/\ Finished(k)
         /\ Penalised(k)
         /\ k.rule = default_rule
         /\ InfoOf(clients, k.client) = k.post)
        => k.retry_after = default_rule.penalty_duration

\* The client of this call has served a penalty: it was penalised, has had no
\* request admitted since, its penalty time has elapsed, and it is not
\* blacklisted.
PenaltyServed(k) ==
    /\ k.pc # "idle"
    /\ k.pre # NoInfo
    /\ k.pre.violation_count > 0
    /\ k.pre.last_request <= k.pre.last_violation
    /\ k.at >= k.pre.penalty_until
    /\ ~k.bl

RuleLetsPass(k) ==
    \/ k.wl
    \/ ~k.rule.enabled
    \/ /\ k.rule.window_size < k.pre.penalty_until - k.pre.last_violation
       /\ k.rule.requests_per_minute >= 1
       /\ k.rule.burst_size >= 1

C8_ListsDecideFirst ==
    \A w \in Callers :
        LET k == call[w] IN
        k.pc # "idle" =>
            /\ k.bl => (~k.allowed /\ k.post = k.pre)
            /\ (k.wl /\ ~k.bl) => (k.allowed /\ k.post = k.pre)

\* A whitelisted client is admitted while its penalty is running.
C8_Witness ==
    \E w \in Callers :
        LET k == call[w] IN
        /\ k.pc # "idle"
        /\ k.wl /\ ~k.bl
        /\ k.pre # NoInfo
        /\ k.at < k.pre.penalty_until
        /\ k.allowed


----------------------------------------------------------------------------
(* Properties of POST /submitReading (specification Spec) *)

Answered(r) == r.pc = "done"

PassedBoundary(r) == r.admitted /\ r.valid

\* C1: a submission that passes the schema, freshness and signature checks,
\* carries seq <= L (L the source's highest stored seq) and is handled with no
\* other request of its source in flight goes no further than the sequence
\* check: it is answered 409 non-increasing-seq with last_seq = L and inserts
\* no row.
C1_ReplayRejected ==
    \A t \in Threads :
        LET r == req[t]
        IN  (/\ r.pc \notin {"idle", "retry", "gate"}
             /\ PassedBoundary(r)
             /\ r.solo
             /\ r.seq <= r.true_last)
            => /\ Answered(r)
               /\ r.status = 409
               /\ r.resp.error = "non-increasing-seq"
               /\ r.resp.last_seq = r.true_last
               /\ r.row = 0

\* C2: under any interleaving of the handlers, a row inserted by a handler
\* whose sequence check read the store carries a seq above that of every row
\* stored before it for the same source (so the source's rows are strictly
\* increasing in insertion order and no (meterID, seq) is stored twice).
C2_RowsStrictlyIncreasing ==
    \A t \in Threads :
        LET r == req[t]
        IN  (r.row # 0 /\ ~r.read_failed)
            => \A i \in 1..(r.row - 1) :
                   readings[i].meterID = r.meter
                       => readings[i].seq < readings[r.row].seq

OwnRow(r) ==
    /\ r.row \in DOMAIN readings
    /\ readings[r.row].meterID = r.meter
    /\ readings[r.row].seq = r.seq

InOrderFeed(r) == r.valid /\ r.feed_ok /\ r.solo

Accepted(r) ==
    /\ r.status = 200
    /\ r.resp.ok
    /\ r.resp.stored_seq = r.seq
    /\ OwnRow(r)
    /\ SeqListOf(readings, r.meter) = [i \in 1..r.seq |-> i]
    /\ LastSeq(readings, r.meter) = r.seq

\* C4 as stated: every reading of an in-order feed of valid, fresh, signed
\* readings, sent one after another at any pace through one client under the
\* default rule, is answered 200 and stored, and the source's last sequence
\* is then its seq.
C4_FeedAccepted ==
    \A t \in Threads :
        (Answered(req[t]) /\ InOrderFeed(req[t])) => Accepted(req[t])

\* C4 amended: every reading of such a feed that the rate limiter admits and
\* whose store write succeeds is answered 200 and stored, and the source's
\* last sequence is then its seq.
C4_AdmittedFeedAccepted ==
    \A t \in Threads :
        (/\ Answered(req[t])
         /\ InOrderFeed(req[t])
         /\ req[t].admitted
         /\ ~req[t].write_failed)
        => Accepted(req[t])

C4_Witness ==
    \E t \in Threads :
        /\ Answered(req[t])
        /\ InOrderFeed(req[t])
        /\ req[t].admitted
        /\ ~req[t].write_failed
        /\ req[t].seq = MaxSeq
        /\ Accepted(req[t])

Rejected(r) == Answered(r) /\ r.status \in {429, 400, 409}

\* C5: a request answered 429, 400 or 409 has called neither the IDS nor the
\* forensic analyzer (so has changed no profile of either), has inserted no
\* row and has published no event.
C5_RejectedNeverScored ==
    \A t \in Threads :
        Rejected(req[t])
        => /\ ~req[t].ids_called
           /\ ~req[t].forensic_called
           /\ req[t].row = 0
           /\ req[t].npub = 0

C5_Witness ==
    \E t \in Threads :
        /\ Rejected(req[t])
        /\ req[t].status = 409
        /\ PassedBoundary(req[t])
        /\ <<req[t].meter, req[t].seq>> \in ids_seen
        /\ <<req[t].meter, req[t].seq>> \in forensic_seen
        /\ readings # <<>>

\* C9: a reading that passed all gates, whose IDS call failed and whose store
\* write succeeded, is answered 200 and stored with suspicious false, score 0
\* and the single reason "detector-unavailable".
C9_DetectorUnavailable ==
    \A t \in Threads :
        LET r == req[t]
        IN  (Answered(r) /\ r.ids_failed /\ ~r.write_failed)
            => /\ r.status = 200
               /\ OwnRow(r)
               /\ ~r.resp.suspicious
               /\ r.resp.score = 0
               /\ r.resp.reasons = <<"detector-unavailable">>
               /\ ~readings[r.row].suspicious
               /\ readings[r.row].score = 0
               /\ readings[r.row].reasons = <<"detector-unavailable">>

\* C10: a request whose store write failed is answered 500 with the error
\* "db-error", is not acknowledged (no ok, no stored_seq), has published no
\* event and has inserted no row, so its source's last sequence is the one
\* the store had before the write.
C10_WriteFailureIsFatal ==
    \A t \in Threads :
        LET r == req[t]
        IN  r.write_failed
            => /\ Answered(r)
               /\ r.status = 500
               /\ r.resp.error = "db-error"
               /\ ~r.resp.ok
               /\ r.resp.stored_seq = -1
               /\ r.npub = 0
               /\ r.row = 0
               /\ (r.solo /\ r.seq > r.true_last)
                      => \A i \in DOMAIN published :
                             ~(/\ published[i].meterID = r.meter
                               /\ published[i].seq = r.seq)

C10_Witness ==
    \E t \in Threads :
        /\ req[t].write_failed
        /\ req[t].status = 500
        /\ req[t].ids_called
        /\ req[t].forensic_called
        /\ readings # <<>>


\* C11: a request is decided by the admission controller, and counted in its
\* client's sliding window and burst tokens, only after it has passed the
\* schema, freshness and signature checks and the sequence check.
C11_AdmissionAfterGate ==
    \A t \in Threads :
        LET r == req[t]
        IN  (r.pc # "idle" /\ r.admitted)
            => /\ r.valid
               /\ r.pc \notin {"gate"}
               /\ ~(Answered(r) /\ r.status \in {400, 409})


\* A valid reading whose seq is more than the threshold above its source's
\* highest stored seq.
LargeGap(r) == r.valid /\ r.seq - r.true_last > GapThreshold

GapAccepted(r) ==
    /\ r.status = 200
    /\ OwnRow(r)
    /\ LastSeq(readings, r.meter) = r.seq
    /\ r.forensic_called
    /\ "large_sequence_gap" \in r.evidence

\* C12 as stated: a valid reading whose seq exceeds its source's lastSeq by
\* more than 100 is answered 200 and stored, lastSeq becomes its seq, and the
\* forensic analyzer records large_sequence_gap evidence for it.
C12_LargeGapAccepted ==
    \A t \in Threads :
        (Answered(req[t]) /\ LargeGap(req[t])) => GapAccepted(req[t])

\* C12 amended: such a reading is never answered 409; if it is admitted by the
\* rate limiter, the forensic analysis does not fail and the store write
\* succeeds, it is answered 200 and stored, lastSeq becomes its seq, and the
\* forensic analyzer has recorded large_sequence_gap evidence for it.
C12_LargeGapPassesGate ==
    \A t \in Threads :
        LET r == req[t]
        IN  (Answered(r) /\ LargeGap(r))
            => /\ r.status # 409
               /\ (r.admitted /\ ~r.forensic_failed /\ ~r.write_failed)
                      => GapAccepted(r)

C12_Witness ==
    \E t \in Threads :
        /\ Answered(req[t])
        /\ LargeGap(req[t])
        /\ req[t].true_last > 0
        /\ GapAccepted(req[t])
        /\ req[t].resp.suspicious


----------------------------------------------------------------------------
(* The event bus on its own: observers connect, read and disconnect while   *)
(* events are published (specification SpecSSE).                            *)

MaxEvents == 3           \* events published per behaviour (SpecSSE)

Viewers    == {"o1", "o2"}
SseStreams == {"readings", "alerts"}

\* An event published before the behaviour starts.
OldEvent == [topic |-> "readings", meterID |-> "M1", seq |-> 0, suspicious |-> FALSE]

\* o1 is connected to the readings stream and has this many events pending.
Backlog == {0, QueueMax - 1}

InitSSE ==
    /\ now = 0
    /\ ticks = 0
    /\ clients = <<>>
    /\ whitelist = {}
    /\ blacklist = {}
    /\ custom_rules = <<>>
    /\ call = [w \in Callers |-> IdleCall]
    /\ ncalls = 0
    /\ req = [t \in Threads |-> IdleReq]
    /\ nreq = 0
    /\ readings = <<>>
    /\ ids_seen = {}
    /\ forensic_seen = {}
    /\ published = <<>>
    /\ subscribers = [sn \in Streams |-> IF sn = "readings" THEN <<"o1">> ELSE <<>>]
    /\ \E n \in Backlog :
           queues = [o \in Observers |-> IF o = "o1" THEN [i \in 1..n |-> OldEvent]
                                         ELSE <<>>]
    /\ streams = [o \in Observers |-> IF o = "o1" THEN "readings" ELSE "none"]
    /\ nevents = 0
    /\ DetIdle
    /\ EnsIdle

sseRest == <<now, ticks, rlVars, call, ncalls, pipeVars, detVars, ensVars>>

\* stream_readings, stream_alerts, stream_meter: the generator starts and
\* subscribes a new queue.
Subscribe(o, stream_name) ==
    /\ streams[o] = "none"
    /\ queues' = [queues EXCEPT ![o] = <<>>]
    /\ subscribers' = [subscribers EXCEPT ![stream_name] = Append(@, o)]
    /\ streams' = [streams EXCEPT ![o] = stream_name]
    /\ UNCHANGED <<nevents, sseRest>>

\* event_stream: q.get returns the oldest pending event, which is sent.
Drain(o) ==
    /\ streams[o] # "none"
    /\ queues[o] # <<>>
    /\ queues' = [queues EXCEPT ![o] = Tail(@)]
    /\ UNCHANGED <<subscribers, streams, nevents, sseRest>>

\* event_stream's finally: the observer is gone, unsubscribe(stream_name, q).
Disconnect(o) ==
    /\ streams[o] # "none"
    /\ subscribers' = [subscribers EXCEPT ![streams[o]] = Remove(@, o)]
    /\ queues' = [queues EXCEPT ![o] = <<>>]
    /\ streams' = [streams EXCEPT ![o] = "none"]
    /\ UNCHANGED <<nevents, sseRest>>

\* sse_publisher.publish(stream_name, ...) of the next event.
PublishEvent(stream_name) ==
    /\ nevents < MaxEvents
    /\ nevents' = nevents + 1
    /\ LET ev == [topic |-> stream_name, meterID |-> "M1", seq |-> nevents + 1,
                  suspicious |-> stream_name = "alerts"]
           r  == SsePublish(subscribers, queues, stream_name, ev)
       IN  /\ subscribers' = r.subscribers
           /\ queues' = r.queues
    /\ UNCHANGED <<streams, sseRest>>

NextSSE ==
    \/ \E o \in Viewers, sn \in SseStreams : Subscribe(o, sn)
    \/ \E o \in Viewers : Drain(o)
    \/ \E o \in Viewers : Disconnect(o)
    \/ \E sn \in SseStreams : PublishEvent(sn)

SpecSSE == InitSSE /\ [][NextSSE]_vars


----------------------------------------------------------------------------
(* Properties of the event bus *)

\* C13: a publish returns having appended the event once to the queue of
\* every subscriber of the stream whose queue was not full, and having left
\* every other queue, the full ones included, as it was.
C13_PublishDropsNewOnly ==
    [][nevents' = nevents + 1
       => \E sn \in Streams :
              LET ev == [topic |-> sn, meterID |-> "M1", seq |-> nevents',
                         suspicious |-> sn = "alerts"]
              IN  \A o \in Observers :
                      queues'[o] =
                          IF Listed(subscribers[sn], o) /\ Len(queues[o]) < QueueMax
                          THEN Append(queues[o], ev)
                          ELSE queues[o]]_vars

C13_Witness ==
    \E a \in Observers, b \in Observers :
        /\ a # b
        /\ streams[a] # "none"
        /\ streams[a] = streams[b]
        /\ Len(queues[a]) = QueueMax
        /\ queues[a][QueueMax].seq < nevents
        /\ queues[b] # <<>>
        /\ queues[b][Len(queues[b])].seq = nevents

\* C14: an observer whose generator is serving a stream has its queue in that
\* stream's list of subscribers (only unsubscribe takes it out), so it gets
\* the events published after it has drained its queue.
C14_SubscriptionStays ==
    \A o \in Observers :
        streams[o] # "none" => Listed(subscribers[streams[o]], o)

\* The events a request published: the last npub publish calls.
OwnEvents(r) == SubSeq(published, Len(published) - r.npub + 1, Len(published))

\* C15: a request answered 200 has stored its reading and then published it
\* once on the readings stream, once on its meter's stream and, if and only if
\* the verdict is suspicious, on the alerts stream; every observer holds
\* exactly the events published on its stream, and an observer of a meter's
\* stream holds readings of that meter only.
C15_PublishedOncePerStream ==
    /\ \A t \in Threads :
           LET r == req[t]
               want == <<"readings", MeterStream(r.meter)>>
                       \o (IF r.resp.suspicious THEN <<"alerts">> ELSE <<>>)
           IN  (Answered(r) /\ r.status = 200)
               => /\ OwnRow(r)
                  /\ r.npub = Len(want)
                  /\ r.npub <= Len(published)
                  /\ \A i \in 1..r.npub :
                         /\ OwnEvents(r)[i].topic = want[i]
                         /\ OwnEvents(r)[i].meterID = r.meter
                         /\ OwnEvents(r)[i].seq = r.seq
                         /\ OwnEvents(r)[i].suspicious = r.resp.suspicious
    /\ \A o \in Observers :
           /\ queues[o] = SelectSeq(published, LAMBDA e : e.topic = streams[o])
           /\ \A m \in Meters :
                  streams[o] = MeterStream(m)
                      => \A i \in DOMAIN queues[o] : queues[o][i].meterID = m

C15_Witness ==
    /\ \E t \in Threads :
           /\ Answered(req[t])
           /\ req[t].status = 200
           /\ req[t].resp.suspicious
           /\ req[t].meter = "M2"
    /\ queues["o2"] # <<>>
    /\ queues["o3"] # <<>>
    /\ queues["o4"] # <<>>


----------------------------------------------------------------------------
(* ids/bayesian_model.py and backend/forensics.py: one source whose readings
   are submitted in turn, each after the answer to the one before.  Scores are
   in units of 1/10000, times in seconds. *)

MaxFeed == 7             \* readings the source submits per behaviour

\* BayesianModel.calculate_anomaly_score: profiles of fewer samples are scored
\* with the global heuristics.
MIN_SAMPLES == 10

\* BayesianModel.get_anomaly_threshold: the default threshold.
DEFAULT_THRESHOLD == 7000

\* The values the source reports, the spacing of its submissions, how far its
\* clock is behind the server's, and the seconds between the freshness check
\* and the forensic analysis of one request.
Values   == {100, 103, 10000}
Spacings == {10, 20}
Skews    == {0, MAX_TIMESTAMP_DRIFT}
Lags     == {0, 1}

\* "0x" and 65 bytes in hexadecimal.
SignatureLength == 132

\* BayesianModel.extract_features: the features the global scoring reads.
ExtractFeatures(reading, last_reading) ==
    [value |-> reading.value,
     time_interval |-> IF last_reading # <<>> THEN reading.ts - last_reading.ts ELSE 0,
     sequence_gap |-> IF last_reading # <<>> THEN reading.seq - last_reading.seq ELSE 0,
     signature_length |-> SignatureLength]

Features == <<"value_anomaly", "timing_anomaly", "sequence_anomaly",
              "signature_anomaly", "pattern_anomaly">>

\* global_stats["feature_weights"], in hundredths.
FeatureWeights ==
    [value_anomaly |-> 30, timing_anomaly |-> 20, sequence_anomaly |-> 25,
     signature_anomaly |-> 15, pattern_anomaly |-> 10]

RECURSIVE WeightedSum(_, _)
WeightedSum(scores, names) ==
    IF names = <<>> THEN 0
    ELSE scores[Head(names)] * FeatureWeights[Head(names)]
         + WeightedSum(scores, Tail(names))

\* BayesianModel.calculate_global_anomaly_score
CalculateGlobalAnomalyScore(features) ==
    LET anomaly_scores ==
            [value_anomaly |->
                 IF features.value > 1000 \/ features.value < 0 THEN 1000 ELSE 0,
             timing_anomaly |->
                 IF features.time_interval > 300 \/ features.time_interval < 0
                 THEN 2000 ELSE 0,
             sequence_anomaly |-> IF features.sequence_gap <= 0 THEN 8000 ELSE 1000,
             signature_anomaly |->
                 IF features.signature_length < 130 \/ features.signature_length > 132
                 THEN 3000 ELSE 0,
             pattern_anomaly |-> 1000]
    IN  [total_score |-> WeightedSum(anomaly_scores, Features) \div 100,
         anomaly_scores |-> anomaly_scores]

\* BayesianModel.analyze_reading for a profile of fewer than MIN_SAMPLES
\* samples, as the /check endpoint returns it.
BayesAnalyzeReading(reading, last_reading) ==
    LET g == CalculateGlobalAnomalyScore(ExtractFeatures(reading, last_reading))
        flagged == SelectSeq(Features, LAMBDA f : g.anomaly_scores[f] > 5000)
    IN  [kind |-> "ok",
         suspicious |-> g.total_score > DEFAULT_THRESHOLD,
         score |-> Round3(g.total_score),
         reasons |-> flagged]

Abs(x) == IF x < 0 THEN -x ELSE x

Diffs(h) == [i \in 1..(Len(h) - 1) |-> h[i + 1] - h[i]]

RECURSIVE SumOf(_)
SumOf(h) == IF h = <<>> THEN 0 ELSE Head(h) + SumOf(Tail(h))

Constant(h) == \A i \in DOMAIN h : h[i] = h[1]

\* _analyze_sequence_patterns, the test of the profile's sequence history.
AnalyzeSequenceHistory(p) ==
    IF /\ p # <<>>
       /\ Len(p.sequence_history) > 5
       /\ Constant(Diffs(p.sequence_history))
       /\ Diffs(p.sequence_history)[1] # 1
    THEN <<Evidence("non_standard_sequence_pattern", 4000)>> ELSE <<>>

\* ForensicAnalyzer._analyze_timing_patterns
AnalyzeTimingPatterns(p, timestamp, current_time) ==
    (IF Abs(current_time - timestamp) > 300
     THEN <<Evidence("stale_timestamp", 5000)>> ELSE <<>>)
    \o (IF /\ p # <<>>
           /\ Len(p.timing_history) > 3
           /\ Constant(Diffs(p.timing_history))
           /\ Diffs(p.timing_history)[1] > 0
        THEN <<Evidence("regular_timing_pattern", 3000)>> ELSE <<>>)

\* The last five entries of a history.
Recent(h) == SubSeq(h, Max2(1, Len(h) - 4), Len(h))

\* ForensicAnalyzer._analyze_value_patterns: the change is compared with three
\* times the mean of the changes between the last five values.
AnalyzeValuePatterns(p, value) ==
    (IF value < 0 THEN <<Evidence("negative_value", 8000)>> ELSE <<>>)
    \o (IF value > 10000 THEN <<Evidence("extreme_value", 7000)>> ELSE <<>>)
    \o (IF /\ p # <<>>
           /\ Len(p.value_history) > 5
           /\ LET recent_values == Recent(p.value_history)
                  changes == [i \in DOMAIN Diffs(recent_values) |->
                                 Abs(Diffs(recent_values)[i])]
              IN  Len(changes) * Abs(value - recent_values[Len(recent_values)])
                      > 3 * SumOf(changes)
        THEN <<Evidence("sudden_value_change", 6000)>> ELSE <<>>)

\* ForensicAnalyzer._analyze_signature_patterns; a signature is given by its
\* identity, its length and whether it starts with 0x.
AnalyzeSignaturePatterns(p, signature) ==
    (IF ~signature.hex THEN <<Evidence("invalid_signature_format", 8000)>> ELSE <<>>)
    \o (IF signature.length < 130 \/ signature.length > 132
        THEN <<Evidence("invalid_signature_length", 7000)>> ELSE <<>>)
    \o (IF p # <<>> /\ Listed(p.signature_history, signature.id)
        THEN <<Evidence("signature_reuse", 9000)>> ELSE <<>>)

\* ForensicAnalyzer._get_recent_readings
GetRecentReadings(seconds) == <<>>

\* ForensicAnalyzer._analyze_cross_meter_patterns; values are whole numbers,
\* so that two of them differ by less than 0.1 when they are equal.
AnalyzeCrossMeterPatterns(meter_id, reading) ==
    LET recent_readings == GetRecentReadings(60)
        similar_readings ==
            SelectSeq(recent_readings,
                      LAMBDA other : /\ other.meterID # meter_id
                                     /\ other.value = reading.value)
    IN  IF Len(similar_readings) > 2
        THEN <<Evidence("coordinated_attack", 8000)>> ELSE <<>>

\* ForensicAnalyzer.analyze_reading: the evidence found for a reading, p being
\* the profile of its meter.
AnalyzeReading(p, reading, last_seq, current_time) ==
    AnalyzeSequencePatterns(reading.seq, last_seq)
    \o AnalyzeSequenceHistory(p)
    \o AnalyzeTimingPatterns(p, reading.ts, current_time)
    \o AnalyzeValuePatterns(p, reading.value)
    \o AnalyzeSignaturePatterns(p, reading.signature)
    \o AnalyzeCrossMeterPatterns(reading.meterID, reading)

NewProfile == [sequence_history |-> <<>>, timing_history |-> <<>>,
               value_history |-> <<>>, signature_history |-> <<>>]

\* _update_meter_profile leaving the signature history as it was (the mutant
\* of C38).
UpdateMeterProfileNoSignature(p, reading) ==
    LET q == IF p = <<>> THEN NewProfile ELSE p
    IN  [sequence_history |-> Append(q.sequence_history, reading.seq),
         timing_history |-> Append(q.timing_history, reading.ts),
         value_history |-> Append(q.value_history, reading.value),
         signature_history |-> q.signature_history]

\* ForensicAnalyzer._update_meter_profile (the histories hold 100 entries, more
\* than a behaviour submits).
UpdateMeterProfile(p, reading) ==
    LET q == IF p = <<>> THEN NewProfile ELSE p
    IN  [sequence_history |-> Append(q.sequence_history, reading.seq),
         timing_history |-> Append(q.timing_history, reading.ts),
         value_history |-> Append(q.value_history, reading.value),
         signature_history |-> Append(q.signature_history, reading.signature.id)]

NoResult == [seq |-> 0, value |-> 0, status |-> 0, suspicious |-> FALSE,
             evidence |-> {}, alerted |-> FALSE]

InitDet ==
    /\ now = 1000
    /\ ticks = 0
    /\ clients = <<>>
    /\ whitelist = {}
    /\ blacklist = {}
    /\ custom_rules = <<>>
    /\ call = [w \in Callers |-> IdleCall]
    /\ ncalls = 0
    /\ req = [t \in Threads |-> IdleReq]
    /\ nreq = 0
    /\ readings = <<>>
    /\ ids_seen = {}
    /\ forensic_seen = {}
    /\ published = <<>>
    /\ SseIdle
    /\ EnsIdle
    /\ bayes = [sample_count |-> 0, last_reading |-> <<>>]
    /\ profile = <<>>
    /\ \E k \in Skews : feed = [clock_skew |-> k, sent |-> 0, last |-> NoResult]

\* submit_reading for the next reading of the source, the IDS and the database
\* answering: the freshness and sequence checks, /check of the IDS, the
\* forensic analysis lag seconds later, the INSERT and the notifications.
SubmitInTurn(value, gap, lag) ==
    /\ feed.sent < MaxFeed
    /\ bayes.sample_count < MIN_SAMPLES
    /\ now' = now + gap
    /\ \E reading \in {[meterID |-> "M1", seq |-> feed.sent + 1,
                        ts |-> now + gap - feed.clock_skew, value |-> value,
                        signature |-> [id |-> feed.sent + 1, hex |-> TRUE,
                                       length |-> SignatureLength]]},
          last_seq \in {GetLastSeq(readings, "M1", FALSE)} :
        \E ids \in {IdsVerdict(BayesAnalyzeReading(reading, bayes.last_reading))},
           evidence_list \in {AnalyzeReading(profile, reading, last_seq,
                                             now + gap + lag)} :
            \E verdict \in {MergeForensic(ids, ForensicResult(evidence_list))} :
                \E evs \in {Notifications([meter |-> "M1", seq |-> reading.seq,
                                           verdict |-> verdict])} :
                    /\ IsTimestampFresh(reading.ts, MAX_TIMESTAMP_DRIFT, now + gap)
                    /\ reading.seq > last_seq
                    /\ bayes' = [sample_count |-> bayes.sample_count + 1,
                                 last_reading |-> reading]
                    /\ profile' = UpdateMeterProfile(profile, reading)
                    /\ readings' = StoreReading(readings,
                                                RowOf("M1", reading.seq, verdict),
                                                FALSE).rows
                    /\ published' = published \o evs
                    /\ feed' = [feed EXCEPT
                                  !.sent = @ + 1,
                                  !.last = [seq |-> reading.seq, value |-> value,
                                            status |-> 200,
                                            suspicious |-> verdict.suspicious,
                                            evidence |-> EvidenceTypes(evidence_list),
                                            alerted |-> \E i \in DOMAIN evs :
                                                            evs[i].topic = "alerts"]]
    /\ UNCHANGED <<ticks, rlVars, call, ncalls, req, nreq, ids_seen, forensic_seen,
                   sseVars, ensVars>>

NextDet == \E value \in Values, gap \in Spacings, lag \in Lags :
               SubmitInTurn(value, gap, lag)

SpecDet == InitDet /\ [][NextDet]_vars

----------------------------------------------------------------------------
(* Properties of the detection of one source's readings *)

NearHundred(v) == Abs(v - 100) <= 5

\* C16: the sixth reading of a source whose first five readings were accepted
\* with values near 100, itself of value 10000, is answered 200 with
\* suspicious=true, has a sudden_value_change evidence and is published on the
\* alerts stream.
C16_SixthReadingFlagged ==
    (/\ feed.sent = 6
     /\ feed.last.value = 10000
     /\ \A i \in 1..5 : NearHundred(profile.value_history[i]))
    => /\ feed.last.status = 200
       /\ feed.last.suspicious
       /\ "sudden_value_change" \in feed.last.evidence
       /\ feed.last.alerted

\* C17: each of the first five readings of a fresh source, their values near
\* 100 and their timestamps fresh and increasing, is answered 200 and stored
\* with suspicious=false.
C17_SteadyFeedClean ==
    (/\ feed.sent \in 1..5
     /\ \A i \in 1..feed.sent : NearHundred(profile.value_history[i])
     /\ \A i \in DOMAIN Diffs(profile.timing_history) :
            Diffs(profile.timing_history)[i] > 0)
    => /\ feed.last.status = 200
       /\ Len(readings) = feed.sent
       /\ \A i \in DOMAIN readings : ~readings[i].suspicious


----------------------------------------------------------------------------
(* ids/ensemble_detector.py: the four detectors and the ensemble, for the
   readings of one meter taken within one hour of one day.  Scores and
   confidences are in millionths. *)

MaxDetect == 1           \* detect_anomaly calls per behaviour

\* self.detectors, in the order detect_anomaly runs them.
Detectors == <<"statistical", "signature", "temporal", "sequence">>

DetectorSet == {Detectors[i] : i \in DOMAIN Detectors}

\* self.detector_weights, in hundredths.
StaticWeights ==
    [statistical |-> 25, signature |-> 30, temporal |-> 25, sequence |-> 20]

RECURSIVE SumSq(_)
SumSq(h) == IF h = <<>> THEN 0 ELSE Head(h) * Head(h) + SumSq(Tail(h))

\* abs(x - mean(h)) / stdev(h) > k for a list h of stdev > 0 (stdev is taken as
\* 0 for a list of one entry):  (n x - S)^2 (n - 1) > k^2 n (n Q - S^2).
ZAbove(x, h, k) ==
    LET n == Len(h)
        S == SumOf(h)
        V == n * SumSq(h) - S * S
    IN  /\ n > 1
        /\ V > 0
        /\ (n * x - S) * (n * x - S) * (n - 1) > k * k * n * V

Min2(a, b) == IF a < b THEN a ELSE b

\* score=min(score, 1.0) without the bound (the mutant of C18).
ClampNone(score) == score

\* score=min(score, 1.0)
Clamp(score) == Min2(score, 1000000)

\* min(len / 50, 1.0)
SizeConfidence(len) == Min2(len * 20000, 1000000)

DetectionResult(d, suspicious, score, confidence, reasons) ==
    [detector_type |-> d, suspicious |-> suspicious, score |-> Clamp(score),
     confidence |-> confidence, reasons |-> reasons, raw |-> score]

RECURSIVE Flatten(_)
Flatten(ss) == IF ss = <<>> THEN <<>> ELSE Head(ss) \o Flatten(Tail(ss))

\* The reasons and the score of the checks that fired; a check is a triple of
\* its condition, its reason and its increment.
Reasons(checks) ==
    Flatten([i \in DOMAIN checks |-> IF checks[i][1] THEN <<checks[i][2]>> ELSE <<>>])

Score(checks) ==
    SumOf([i \in DOMAIN checks |-> IF checks[i][1] THEN checks[i][3] ELSE 0])

\* StatisticalDetector.detect
StatisticalDetect(st, reading) ==
    LET history == st.history
        values == [i \in DOMAIN history |-> history[i].value]
        timestamps == [i \in DOMAIN history |-> history[i].timestamp]
        intervals == Diffs(timestamps)
        seq_gap == IF history = <<>> THEN 1
                   ELSE reading.seq - history[Len(history)].sequence
        checks ==
            << <<Len(history) > 10 /\ ZAbove(reading.value, values, 3),
                 "value-outlier", 400000>>,
               <<Len(history) > 5 /\ intervals # <<>>
                     /\ ZAbove(reading.ts - timestamps[Len(timestamps)], intervals, 2),
                 "timing-anomaly", 300000>>,
               <<history # <<>> /\ seq_gap <= 0, "non-increasing-sequence", 800000>>,
               <<history # <<>> /\ seq_gap > 10, "large-sequence-gap",
                 Min2(seq_gap * 15000, 300000)>> >>
        after == Append(history, [value |-> reading.value, timestamp |-> reading.ts,
                                  sequence |-> reading.seq])
    IN  [state |-> [history |-> after],
         result |-> DetectionResult("statistical", Score(checks) > 500000, Score(checks),
                                    SizeConfidence(Len(after)), Reasons(checks))]

\* SignatureDetector.detect; a signature is given by its identity, its length,
\* whether it starts with 0x and its Shannon entropy in tenths of a bit.
SignatureDetect(st, reading) ==
    LET signature == reading.signature
        checks ==
            << <<signature.length < 130 \/ signature.length > 132,
                 "invalid-signature-length", 600000>>,
               <<~signature.hex, "invalid-signature-format", 500000>>,
               <<signature.entropy < 30 \/ signature.entropy > 45,
                 "unusual-signature-entropy", 300000>>,
               <<Listed(st.signature_patterns, signature.id), "signature-reuse", 700000>> >>
    IN  [state |-> [signature_patterns |-> Append(st.signature_patterns, signature.id)],
         result |-> DetectionResult("signature", Score(checks) > 400000, Score(checks),
                                    800000, Reasons(checks))]

\* TemporalDetector.detect
TemporalDetect(st, reading) ==
    LET hourly_values == Append(st.hourly_values, reading.value)
        daily_values == Append(st.daily_values, reading.value)
        stamps == Append(st.intervals, reading.ts)
        interval == IF st.intervals = <<>> THEN 0
                    ELSE reading.ts - st.intervals[Len(st.intervals)]
        checks ==
            << <<Len(hourly_values) > 5 /\ ZAbove(reading.value, hourly_values, 2),
                 "unusual-hourly-value", 400000>>,
               <<Len(daily_values) > 5 /\ ZAbove(reading.value, daily_values, 2),
                 "unusual-daily-value", 300000>>,
               <<st.intervals # <<>> /\ Len(stamps) > 5
                     /\ ZAbove(interval, Diffs(stamps), 2),
                 "unusual-interval", 300000>> >>
    IN  [state |-> [hourly_values |-> hourly_values, daily_values |-> daily_values,
                    intervals |-> stamps],
         result |-> DetectionResult("temporal", Score(checks) > 500000, Score(checks),
                                    SizeConfidence(Len(stamps)), Reasons(checks))]

\* SequenceDetector.detect
SequenceDetect(st, reading) ==
    LET gap == reading.seq - st.last_seq
        gaps == IF st.last_seq > 0 THEN Append(st.gaps, gap) ELSE st.gaps
        checks ==
            << <<reading.seq <= st.last_seq, "non-increasing-sequence", 800000>>,
               <<st.last_seq > 0 /\ Len(gaps) > 5 /\ ZAbove(gap, gaps, 2),
                 "unusual-sequence-gap", 400000>>,
               <<Listed(st.sequences, reading.seq), "sequence-duplication", 600000>> >>
        sequences == Append(st.sequences, reading.seq)
    IN  [state |-> [sequences |-> sequences, gaps |-> gaps, last_seq |-> reading.seq],
         result |-> DetectionResult("sequence", Score(checks) > 500000, Score(checks),
                                    SizeConfidence(Len(sequences)), Reasons(checks))]

Detect(d, st, reading) ==
    CASE d = "statistical" -> StatisticalDetect(st, reading)
      [] d = "signature"   -> SignatureDetect(st, reading)
      [] d = "temporal"    -> TemporalDetect(st, reading)
      [] d = "sequence"    -> SequenceDetect(st, reading)

\* A failed detector counted as a full alarm (the mutant of C20).
AlarmResult(d) ==
    [detector_type |-> d, suspicious |-> TRUE, score |-> 1000000, confidence |-> 0,
     reasons |-> <<"detector-error">>, raw |-> 1000000]

\* detect_anomaly: the neutral result of a detector that raised.
NeutralResult(d) ==
    [detector_type |-> d, suspicious |-> FALSE, score |-> 0, confidence |-> 0,
     reasons |-> <<"detector-error">>, raw |-> 0]

\* majority_voting's score, the plain mean (the mutant of C19).
MajorityVoting(results, weights) ==
    LET suspicious_count ==
            Cardinality({i \in DOMAIN results : results[i].suspicious})
    IN  [weighted_score |->
             SumOf([i \in DOMAIN results |-> results[i].score]) \div Len(results),
         consensus |-> 2 * suspicious_count > Len(results)]

\* EnsembleDetector.majority_voting
MajorityVote(results) ==
    LET suspicious_count ==
            Cardinality({i \in DOMAIN results : results[i].suspicious})
        total_count == Len(results)
    IN  [suspicious_count |-> suspicious_count,
         total_count |-> total_count,
         consensus |-> total_count > 0 /\ 2 * suspicious_count > total_count]

\* weighted_voting for which half of the weight suffices (the mutant of C30).
WeightedVotingFromHalf(results, weights) ==
    LET total_weight ==
            SumOf([i \in DOMAIN results |-> weights[results[i].detector_type]])
        suspicious_votes ==
            SumOf([i \in DOMAIN results |->
                      IF results[i].suspicious
                      THEN weights[results[i].detector_type] ELSE 0])
        weighted_score ==
            SumOf([i \in DOMAIN results |->
                      results[i].score * weights[results[i].detector_type]])
    IN  [weighted_score |-> IF total_weight > 0
                            THEN weighted_score \div total_weight ELSE 0,
         consensus |-> total_weight > 0 /\ 2 * suspicious_votes >= total_weight]

\* EnsembleDetector.weighted_voting
WeightedVoting(results, weights) ==
    LET total_weight ==
            SumOf([i \in DOMAIN results |-> weights[results[i].detector_type]])
        suspicious_votes ==
            SumOf([i \in DOMAIN results |->
                      IF results[i].suspicious
                      THEN weights[results[i].detector_type] ELSE 0])
        weighted_score ==
            SumOf([i \in DOMAIN results |->
                      results[i].score * weights[results[i].detector_type]])
    IN  [weighted_score |-> IF total_weight > 0
                            THEN weighted_score \div total_weight ELSE 0,
         consensus |-> total_weight > 0 /\ 2 * suspicious_votes > total_weight]

\* EnsembleDetector.calculate_consensus_score:
\* agreement_ratio * 0.4 + avg_confidence * 0.3 + avg_score * 0.3
CalculateConsensusScore(results) ==
    LET total_count == Len(results)
        suspicious_count ==
            Cardinality({i \in DOMAIN results : results[i].suspicious})
        agreement == Max2(suspicious_count, total_count - suspicious_count)
        confidences == SumOf([i \in DOMAIN results |-> results[i].confidence])
        scores == SumOf([i \in DOMAIN results |-> results[i].score])
    IN  IF results = <<>> THEN 0
        ELSE (400000 * agreement) \div total_count
             + (3 * confidences) \div (10 * total_count)
             + (3 * scores) \div (10 * total_count)

\* Removes duplicates, keeping the first occurrences.
RECURSIVE Dedup(_, _)
Dedup(list, seen) ==
    IF list = <<>> THEN <<>>
    ELSE IF Head(list) \in seen THEN Dedup(Tail(list), seen)
    ELSE <<Head(list)>> \o Dedup(Tail(list), seen \cup {Head(list)})

\* EnsembleDetector.detect_anomaly, the detectors of failing raising before
\* they update their state: the detectors' states and the EnsembleResult.
DetectAnomaly(e, reading, failing) ==
    LET runs == [i \in DOMAIN Detectors |->
                    IF Detectors[i] \in failing
                    THEN [state |-> e.detectors[Detectors[i]],
                          result |-> NeutralResult(Detectors[i])]
                    ELSE Detect(Detectors[i], e.detectors[Detectors[i]], reading)]
        detector_results == [i \in DOMAIN Detectors |-> runs[i].result]
        weighted_vote == WeightedVoting(detector_results, e.detector_weights)
    IN  [e EXCEPT
           !.detectors = [d \in DetectorSet |->
                             runs[CHOOSE i \in DOMAIN Detectors : Detectors[i] = d].state],
           !.calls = @ + 1,
           !.reading = reading,
           !.failed = failing,
           !.result =
               [suspicious |-> weighted_vote.consensus,
                overall_score |-> weighted_vote.weighted_score,
                confidence |->
                    SumOf([i \in DOMAIN detector_results |->
                              detector_results[i].confidence])
                    \div Len(detector_results),
                detector_results |-> detector_results,
                consensus_score |-> CalculateConsensusScore(detector_results),
                voting_result |-> [weighted |-> weighted_vote,
                                   majority |-> MajorityVote(detector_results)],
                final_reasons |->
                    Dedup(Flatten([i \in DOMAIN detector_results |->
                                      detector_results[i].reasons]), {})]]

NoReading == [value |-> 0, ts |-> 0, seq |-> 0,
              signature |-> [id |-> 0, length |-> 0, hex |-> FALSE, entropy |-> 0]]

NoEnsembleResult ==
    [suspicious |-> FALSE, overall_score |-> 0, confidence |-> 0,
     detector_results |-> <<>>, consensus_score |-> 0,
     voting_result |-> [weighted |-> [weighted_score |-> 0, consensus |-> FALSE],
                        majority |-> MajorityVote(<<>>)],
     final_reasons |-> <<>>]

\* EnsembleDetector.__init__
NewEnsemble ==
    [detector_weights |-> StaticWeights,
     detectors |->
         [statistical |-> [history |-> <<>>],
          signature |-> [signature_patterns |-> <<>>],
          temporal |-> [hourly_values |-> <<>>, daily_values |-> <<>>,
                        intervals |-> <<>>],
          sequence |-> [sequences |-> <<>>, gaps |-> <<>>, last_seq |-> 0]],
     calls |-> 0, reading |-> NoReading, failed |-> {}, result |-> NoEnsembleResult]

\* A signature of 0x and 130 hexadecimal digits never sent before, and a
\* malformed one.
FreshSignature(n) == [id |-> n, length |-> 132, hex |-> TRUE, entropy |-> 39]

Malformed == [id |-> 0, length |-> 10, hex |-> FALSE, entropy |-> 20]

\* The readings of a warmed-up meter: seq 1..WarmUp, values 10 and 12 and
\* intervals of 10 s and 12 s in turn.
WarmUp == 11

WarmReading(i) ==
    [value |-> 10 + 2 * (i % 2), ts |-> 11 * i - (i % 2), seq |-> i,
     signature |-> FreshSignature(i)]

RECURSIVE Warmed(_)
Warmed(n) ==
    IF n = 0 THEN NewEnsemble ELSE DetectAnomaly(Warmed(n - 1), WarmReading(n), {})

\* The detectors start new or warmed up.
Starts == {0, WarmUp}

EnsValues  == {10, 500}
EnsGaps    == {10, 300}
SeqSteps   == {0, 1, 12}
Signatures == {"fresh", "reused", "malformed"}

\* The reading a meter sends after the last one.
NextReading(e, value, gap, step, sig) ==
    [value |-> value, ts |-> e.reading.ts + gap, seq |-> e.reading.seq + step,
     signature |-> CASE sig = "fresh" -> FreshSignature(e.calls + 1)
                     [] sig = "reused" -> e.reading.signature
                     [] sig = "malformed" -> Malformed]

InitEns ==
    /\ now = 0
    /\ ticks = 0
    /\ clients = <<>>
    /\ whitelist = {}
    /\ blacklist = {}
    /\ custom_rules = <<>>
    /\ call = [w \in Callers |-> IdleCall]
    /\ ncalls = 0
    /\ req = [t \in Threads |-> IdleReq]
    /\ nreq = 0
    /\ readings = <<>>
    /\ ids_seen = {}
    /\ forensic_seen = {}
    /\ published = <<>>
    /\ SseIdle
    /\ DetIdle
    /\ \E n \in Starts : ens = Warmed(n)

ensRest == <<now, ticks, rlVars, call, ncalls, pipeVars, sseVars, detVars>>

\* detect_anomaly for the meter's next reading; the detectors of failing raise.
DetectReading(value, gap, step, sig, failing) ==
    /\ \E n \in Starts : ens.calls \in n..(n + MaxDetect - 1)
    /\ ens' = DetectAnomaly(ens, NextReading(ens, value, gap, step, sig), failing)
    /\ UNCHANGED ensRest

\* get_detector_performance for a detector_performance table that nothing
\* writes: every f1_score is 0.
GetDetectorPerformance == [d \in DetectorSet |-> [f1_score |-> 0]]

\* update_detector_weights(get_detector_performance()); the new weights are
\* in hundredths.
UpdateDetectorWeights ==
    /\ LET performance == GetDetectorPerformance
           total_f1 == SumOf([i \in DOMAIN Detectors |->
                                 performance[Detectors[i]].f1_score])
       IN  ens' = IF total_f1 > 0
                  THEN [ens EXCEPT !.detector_weights =
                            [d \in DetectorSet |->
                                (100 * performance[d].f1_score) \div total_f1]]
                  ELSE ens
    /\ UNCHANGED ensRest

NextEns ==
    \/ \E value \in EnsValues, gap \in EnsGaps, step \in SeqSteps,
          sig \in Signatures, failing \in SUBSET DetectorSet :
           DetectReading(value, gap, step, sig, failing)
    \/ UpdateDetectorWeights

SpecEns == InitEns /\ [][NextEns]_vars

----------------------------------------------------------------------------
(* Properties of the ensemble *)

Unit(x) == x \in 0..1000000

\* C18: whichever detectors raise, the score and the confidence of every
\* detector result and the overall score, the confidence and the consensus
\* score of the ensemble result lie in [0, 1].
C18_ScoresInUnitInterval ==
    LET r == ens.result
    IN  /\ Unit(r.overall_score)
        /\ Unit(r.confidence)
        /\ Unit(r.consensus_score)
        /\ \A i \in DOMAIN r.detector_results :
               /\ Unit(r.detector_results[i].score)
               /\ Unit(r.detector_results[i].confidence)

C18_Witness ==
    /\ ens.calls > WarmUp
    /\ ens.failed # {}
    /\ \E i \in DOMAIN ens.result.detector_results :
           ens.result.detector_results[i].raw > 1000000

\* C19: the overall score is the sum of score times weight of the four
\* detector results divided by the sum of the weights, the weights being
\* 0.25, 0.30, 0.25 and 0.20 at every call.
C19_WeightedAverage ==
    LET r == ens.result.detector_results
    IN  /\ ens.detector_weights
               = [statistical |-> 25, signature |-> 30, temporal |-> 25,
                  sequence |-> 20]
        /\ ens.calls > 0
           => /\ Len(r) = 4
              /\ (25 + 30 + 25 + 20) * ens.result.overall_score
                     = 25 * r[1].score + 30 * r[2].score
                       + 25 * r[3].score + 20 * r[4].score

C19_Witness ==
    LET r == ens.result.detector_results
    IN  /\ ens.calls > WarmUp
        /\ ens.failed = {}
        /\ r[1].score > 0
        /\ r[2].score > r[1].score
        /\ r[3].score < r[1].score
        /\ ens.result.overall_score > r[3].score
        /\ ens.result.overall_score < r[2].score

\* C20: a call in which detectors raise still yields four results, in the
\* detectors' order: that of a detector that raised is suspicious=false, score
\* 0, confidence 0 with a detector-error reason, and that of any other detector
\* is what it yields for the reading from its own state.
C20_FailedDetectorNeutral ==
    [][ens'.calls = ens.calls + 1
       => LET r == ens'.result.detector_results
          IN  /\ Len(r) = 4
              /\ \A i \in 1..4 :
                     /\ r[i].detector_type = Detectors[i]
                     /\ Detectors[i] \in ens'.failed
                        => /\ ~r[i].suspicious
                           /\ r[i].score = 0
                           /\ r[i].confidence = 0
                           /\ r[i].reasons = <<"detector-error">>
                     /\ Detectors[i] \notin ens'.failed
                        => r[i] = Detect(Detectors[i], ens.detectors[Detectors[i]],
                                         ens'.reading).result]_vars

C20_Witness ==
    /\ ens.calls > WarmUp
    /\ ens.failed = {"signature", "temporal"}
    /\ ens.result.detector_results[1].suspicious
    /\ ens.result.detector_results[4].score > 0
    /\ "detector-error" \in {ens.result.final_reasons[i] :
                                i \in DOMAIN ens.result.final_reasons}


----------------------------------------------------------------------------
(* backend/forensics.py: the ForensicAnalyzer called reading after reading,
   for several meters.  Severities are in units of 1/10000. *)

MaxAnalyze == 4          \* analyze_reading calls per behaviour

\* deque(maxlen=10000)
EVIDENCE_MAX == 10000

\* A list that starts with old copies of one earlier record, followed by the
\* records of new.
OldEvidence == [meter_id |-> "M0", evidence_type |-> "stale_timestamp",
                severity |-> 5000]

StoreLen(h) == h.old + Len(h.new)

\* INSERT INTO forensic_evidence
DbInsert(db, row) == [db EXCEPT !.new = Append(@, row)]

\* self.evidence_history.append(evidence): a full deque drops its oldest entry.
DequeAppendUnbounded(h, e) == [h EXCEPT !.new = Append(@, e)]

DequeAppend(h, e) ==
    IF StoreLen(h) < EVIDENCE_MAX THEN [h EXCEPT !.new = Append(@, e)]
    ELSE IF h.old > 0 THEN [old |-> h.old - 1, new |-> Append(h.new, e)]
    ELSE [old |-> 0, new |-> Append(Tail(h.new), e)]

\* ForensicAnalyzer._store_evidence for each evidence of the list in turn.
RECURSIVE StoreEvidence(_, _, _)
StoreEvidence(e, meter_id, evidence_list) ==
    IF evidence_list = <<>> THEN e
    ELSE LET row == [meter_id |-> meter_id,
                     evidence_type |-> Head(evidence_list).evidence_type,
                     severity |-> Head(evidence_list).severity]
         IN  StoreEvidence([e EXCEPT !.db = DbInsert(@, row),
                                     !.evidence_history = DequeAppend(@, row)],
                           meter_id, Tail(evidence_list))

CountType(evidence_list, type) ==
    Cardinality({i \in DOMAIN evidence_list : evidence_list[i].evidence_type = type})

\* ForensicAnalyzer._detect_attack_patterns at time t
DetectAttackPatterns(meter_id, evidence_list, t) ==
    (IF /\ CountType(evidence_list, "signature_reuse") > 0
        /\ CountType(evidence_list, "sequence_rollback") > 0
     THEN <<[pattern_id |-> <<"replay_attack", meter_id, t>>,
             pattern_type |-> "replay_attack", meter_id |-> meter_id,
             frequency |-> 1, first_seen |-> t, last_seen |-> t,
             severity |-> 9000]>>
     ELSE <<>>)
    \o (IF CountType(evidence_list, "regular_timing_pattern") > 3
        THEN <<[pattern_id |-> <<"timing_attack", meter_id, t>>,
                pattern_type |-> "timing_attack", meter_id |-> meter_id,
                frequency |-> CountType(evidence_list, "regular_timing_pattern"),
                first_seen |-> t, last_seen |-> t, severity |-> 6000]>>
        ELSE <<>>)

\* _calculate_risk_level with every level one step lower (the mutant of C24).
CalculateRiskLevelLenient(anomaly_score, attack_patterns) ==
    LET Above(x) == \/ anomaly_score > x
                    \/ \E i \in DOMAIN attack_patterns : attack_patterns[i].severity > x
    IN  IF Above(8000) THEN "MEDIUM"
        ELSE IF Above(5000) THEN "LOW"
        ELSE "NORMAL"

\* ForensicAnalyzer._calculate_risk_level
CalculateRiskLevel(anomaly_score, attack_patterns) ==
    LET Above(x) == \/ anomaly_score > x
                    \/ \E i \in DOMAIN attack_patterns : attack_patterns[i].severity > x
    IN  IF Above(8000) THEN "HIGH"
        ELSE IF Above(5000) THEN "MEDIUM"
        ELSE IF Above(2000) THEN "LOW"
        ELSE "NORMAL"

NoAnalysis == [meter_id |-> "none", raised |-> FALSE, evidence |-> <<>>,
               anomaly_detected |-> FALSE, anomaly_score |-> 0,
               attack_patterns |-> <<>>, risk_level |-> "NORMAL"]

\* ForensicAnalyzer.__init__; log, reported and cycled are not fields of the
\* analyzer: the readings handed to it with the times of the calls, the
\* patterns its calls returned, and whether the background analysis has run
\* since the last call.
NewAnalyzer ==
    [db |-> [old |-> 0, new |-> <<>>],
     evidence_history |-> [old |-> 0, new |-> <<>>],
     attack_patterns |-> <<>>,
     meter_profiles |-> <<>>,
     analysed |-> 0, last |-> NoAnalysis, log |-> <<>>, reported |-> <<>>,
     cycled |-> FALSE]

ProfileOf(e, m) ==
    IF m \in DOMAIN e.meter_profiles THEN e.meter_profiles[m] ELSE <<>>

\* ForensicAnalyzer.analyze_reading at time t; with fails, the first INSERT of
\* _store_evidence raises and the call ends there.
ForensicAnalyze(e, reading, last_seq, t, fails) ==
    LET m == reading.meterID
        evidence_list == AnalyzeReading(ProfileOf(e, m), reading, last_seq, t)
        patterns == DetectAttackPatterns(m, evidence_list, t)
        result == ForensicResult(evidence_list)
        logged == [e EXCEPT !.analysed = @ + 1, !.cycled = FALSE,
                            !.log = Append(@, [meterID |-> m, value |-> reading.value,
                                               t |-> t])]
    IN  IF fails /\ evidence_list # <<>>
        THEN [logged EXCEPT !.last = [NoAnalysis EXCEPT !.meter_id = m,
                                                       !.raised = TRUE]]
        ELSE [StoreEvidence(logged, m, evidence_list) EXCEPT
                !.meter_profiles =
                    (m :> UpdateMeterProfile(ProfileOf(e, m), reading)) @@ @,
                !.reported = @ \o patterns,
                !.last = [meter_id |-> m, raised |-> FALSE,
                          evidence |-> evidence_list,
                          anomaly_detected |-> result.anomaly_detected,
                          anomaly_score |-> result.anomaly_score,
                          attack_patterns |-> patterns,
                          risk_level |->
                              CalculateRiskLevel(SumSeverity(evidence_list), patterns)]]

FMeters == {"M1", "M2", "M3", "M4"}

\* How far a meter's clock is behind the analyzer's.
ClockSkew(m) == IF m = "M2" THEN 301 ELSE 0

\* The highest sequence number a meter has sent, and the readings it sent.
SentBy(e, m) ==
    IF ProfileOf(e, m) = <<>> THEN 0 ELSE Len(ProfileOf(e, m).sequence_history)

ForensicReading(e, m, t, kind) ==
    LET n == SentBy(e, m)
        top == IF n = 0 THEN 0
               ELSE MaxOf({ProfileOf(e, m).sequence_history[i] : i \in 1..n})
    IN  [meterID |-> m,
         seq |-> IF kind \in {"rollback", "replay"} THEN top ELSE top + 1,
         ts |-> t - ClockSkew(m),
         value |-> 100,
         signature |-> [id |-> IF kind \in {"reuse", "replay"} /\ n > 0
                               THEN <<m, n>> ELSE <<m, n + 1>>,
                        hex |-> TRUE, length |-> SignatureLength]]

LastSeqArg(e, m, kind) ==
    LET r == ForensicReading(e, m, 0, kind)
    IN  IF kind \in {"rollback", "replay"} THEN r.seq ELSE r.seq - 1

\* The analyzer after M1 and M2 each sent four readings, 10 s apart.
WarmSteps == 4

RECURSIVE WarmAnalyzer(_)
WarmAnalyzer(n) ==
    IF n = 0 THEN NewAnalyzer
    ELSE LET e1 == WarmAnalyzer(n - 1)
             e2 == ForensicAnalyze(e1, ForensicReading(e1, "M1", 10 * n, "normal"),
                                   LastSeqArg(e1, "M1", "normal"), 10 * n, FALSE)
         IN  ForensicAnalyze(e2, ForensicReading(e2, "M2", 10 * n, "normal"),
                             LastSeqArg(e2, "M2", "normal"), 10 * n, FALSE)

\* The evidence recorded before the behaviour starts: none, or so much that
\* the history is one entry short of full.
Recorded == {0, EVIDENCE_MAX - StoreLen(WarmAnalyzer(WarmSteps).evidence_history) - 1}

\* The calls of a behaviour: M1 sends anything, the other meters in-order
\* readings with new signatures.
Calls ==
    {[meter |-> "M1", gap |-> g, kind |-> k] :
        g \in {10, 20}, k \in {"normal", "rollback", "reuse", "replay"}}
    \cup {[meter |-> "M2", gap |-> g, kind |-> "normal"] : g \in {10, 20}}
    \cup {[meter |-> m, gap |-> 10, kind |-> "normal"] : m \in {"M3", "M4"}}

InitFor ==
    /\ now = 10 * WarmSteps
    /\ ticks = 0
    /\ clients = <<>>
    /\ whitelist = {}
    /\ blacklist = {}
    /\ custom_rules = <<>>
    /\ call = [w \in Callers |-> IdleCall]
    /\ ncalls = 0
    /\ req = [t \in Threads |-> IdleReq]
    /\ nreq = 0
    /\ readings = <<>>
    /\ ids_seen = {}
    /\ forensic_seen = {}
    /\ published = <<>>
    /\ SseIdle
    /\ EnsIdle
    /\ bayes = [sample_count |-> 0, last_reading |-> <<>>]
    /\ profile = <<>>
    /\ \E n \in Recorded :
           feed = [WarmAnalyzer(WarmSteps) EXCEPT !.db.old = n,
                                                   !.evidence_history.old = n,
                                                   !.analysed = 0]

forRest == <<ticks, rlVars, call, ncalls, pipeVars, sseVars, ensVars, bayes, profile>>

\* forensics.analyze_reading(payload, last_seq)
AnalyzeCall(c, fails) ==
    /\ feed.analysed < MaxAnalyze
    /\ now' = now + c.gap
    /\ feed' = ForensicAnalyze(feed, ForensicReading(feed, c.meter, now + c.gap, c.kind),
                               LastSeqArg(feed, c.meter, c.kind), now + c.gap, fails)
    /\ UNCHANGED forRest

\* _analysis_loop: one turn of the loop; _perform_background_analysis does
\* nothing.
BackgroundAnalysis ==
    /\ ~feed.cycled
    /\ feed' = [feed EXCEPT !.cycled = TRUE]
    /\ UNCHANGED <<now, forRest>>

NextFor ==
    \/ \E c \in Calls, fails \in BOOLEAN : AnalyzeCall(c, fails)
    \/ BackgroundAnalysis

SpecFor == InitFor /\ [][NextFor]_vars


----------------------------------------------------------------------------
(* Properties of the forensic analyzer *)

\* h2 holds the records of h, unchanged and in place, and perhaps more.
IsExtension(h, h2) ==
    /\ h2.old = h.old
    /\ Len(h2.new) >= Len(h.new)
    /\ SubSeq(h2.new, 1, Len(h.new)) = h.new

LastOf(q, k) == SubSeq(q, Len(q) - k + 1, Len(q))

RecordedFor(m, type) ==
    Cardinality({i \in DOMAIN feed.db.new :
                    /\ feed.db.new[i].meter_id = m
                    /\ feed.db.new[i].evidence_type = type})

ReportedFor(m, type) ==
    {i \in DOMAIN feed.reported :
        /\ feed.reported[i].meter_id = m
        /\ feed.reported[i].pattern_type = type}

\* C22: a reading whose evidence holds signature_reuse and sequence_rollback
\* is reported with a replay_attack pattern, and a meter for which four
\* regular_timing_pattern evidences were recorded has had a timing_attack
\* pattern reported.
C22_PatternsReported ==
    /\ (/\ CountType(feed.last.evidence, "signature_reuse") > 0
        /\ CountType(feed.last.evidence, "sequence_rollback") > 0)
       => \E i \in DOMAIN feed.last.attack_patterns :
              feed.last.attack_patterns[i].pattern_type = "replay_attack"
    /\ \A m \in FMeters :
           RecordedFor(m, "regular_timing_pattern") >= 4
               => ReportedFor(m, "timing_attack") # {}

PatternTypes == {"replay_attack", "timing_attack"}

\* C23: every kind of pattern detected for a meter has exactly one record in
\* the analyzer's attack patterns, whose frequency is the number of times it
\* was detected and whose first_seen is the time of the first detection.
C23_OneRecordPerPattern ==
    \A m \in FMeters, type \in PatternTypes :
        ReportedFor(m, type) # {}
            => LET ids == {id \in DOMAIN feed.attack_patterns :
                              /\ feed.attack_patterns[id].meter_id = m
                              /\ feed.attack_patterns[id].pattern_type = type}
                   first == CHOOSE i \in ReportedFor(m, type) :
                                \A j \in ReportedFor(m, type) : i <= j
               IN  /\ Cardinality(ids) = 1
                   /\ \A id \in ids :
                          /\ feed.attack_patterns[id].frequency
                                 = Cardinality(ReportedFor(m, type))
                          /\ feed.attack_patterns[id].first_seen
                                 = feed.reported[first].first_seen

Analysed(a) == a.meter_id # "none" /\ ~a.raised

\* C24: with S the sum of the severities of the evidence of the last analysed
\* reading, anomaly_detected is S > 0.5, anomaly_score is min(S, 1), and the
\* risk level is HIGH if S > 0.8 or a detected pattern has severity > 0.8,
\* else MEDIUM if S > 0.5 or a pattern severity > 0.5, else LOW if S > 0.2 or
\* a pattern severity > 0.2, else NORMAL.
C24_ScoreAndRisk ==
    LET a == feed.last
        S == SumOf([i \in DOMAIN a.evidence |-> a.evidence[i].severity])
        P(x) == \E i \in DOMAIN a.attack_patterns : a.attack_patterns[i].severity > x
    IN  Analysed(a)
        => /\ a.anomaly_detected <=> (S > 5000)
           /\ a.anomaly_score = (IF S < 10000 THEN S ELSE 10000)
           /\ a.risk_level = "HIGH" <=> (S > 8000 \/ P(8000))
           /\ a.risk_level = "MEDIUM"
                  <=> (~(S > 8000 \/ P(8000)) /\ (S > 5000 \/ P(5000)))
           /\ a.risk_level = "LOW"
                  <=> (~(S > 5000 \/ P(5000)) /\ (S > 2000 \/ P(2000)))
           /\ a.risk_level = "NORMAL" <=> ~(S > 2000 \/ P(2000))

C24_Witness ==
    /\ Analysed(feed.last)
    /\ SumSeverity(feed.last.evidence) = 8000
    /\ feed.last.risk_level = "MEDIUM"
    /\ feed.last.anomaly_detected
    /\ \E i \in DOMAIN feed.reported : feed.reported[i].severity = 9000

\* The last reading coincides in value with readings that at least three
\* other meters sent in the 60 s before it.
Coincident ==
    LET k == Len(feed.log)
        cur == feed.log[k]
        near == {i \in 1..(k - 1) : /\ feed.log[i].meterID # cur.meterID
                                    /\ feed.log[i].value = cur.value
                                    /\ cur.t - feed.log[i].t <= 60}
    IN  Cardinality({feed.log[i].meterID : i \in near}) >= 3

\* C29: a reading that coincides in value with readings of three other meters
\* of the last 60 s has a coordinated_attack evidence recorded once it was
\* analysed and the background analysis has run.
C29_CoordinatedAttackFound ==
    (/\ feed.analysed > 0
     /\ Analysed(feed.last)
     /\ Coincident
     /\ feed.cycled)
    => RecordedFor(feed.last.meter_id, "coordinated_attack") > 0


----------------------------------------------------------------------------
(* The profiler of the IDS: BayesianModel with its meter_profiles table, and
   the request threads of the IDS service that call analyze_reading.  Scores
   and thresholds are in 1/10000. *)

MaxChecks == 3

\* update_profile: the length the anomaly history is cut to.
HISTORY_MAX == 100

\* get_anomaly_threshold: the number of scores the threshold is computed from
\* and the bounds it is clamped to.
RECENT_SCORES == 20
THRESHOLD_MIN == 3000
THRESHOLD_MAX == 9000

\* Every score is a multiple of 0.005: the feature scores are multiples of 0.1
\* and the weights multiples of 0.05.
ScoreGrid == 50

ProfMeters == {"M1", "M2"}
Checkers == {"k1", "k2"}

\* Noon: hour_of_day is 12 for every reading of the model.
DayStart == 43200

\* load_meter_profile returns None.
NoProfile == <<>>

\* update_profile, the profile it creates.  Of the statistics only the sign of
\* timing_stats["mean"] is kept: the std fields are never written and stay 0,
\* and a moving average that starts at 0 and moves a tenth of the way to each
\* interval (or gap) never equals an interval (or gap) of the model.
NewMeterProfile ==
    [sample_count |-> 0, anomaly_history |-> <<>>, timing_mean_positive |-> FALSE]

\* extract_features: the features the profile scoring reads besides those of
\* the global scoring.
ExtractPatternFeatures(reading, last_reading) ==
    [hour_of_day |-> (reading.ts \div 3600) % 24,
     signature_length |-> reading.signature.length,
     signature_entropy |-> reading.signature.entropy,
     value_change_large |->
         /\ last_reading # <<>>
         /\ last_reading.value > 0
         /\ 2 * Abs(reading.value - last_reading.value) > last_reading.value]

\* BayesianModel.calculate_anomaly_score with the profile it loads.
CalculateAnomalyScore(features, pattern, p) ==
    IF p = NoProfile \/ p.sample_count < MIN_SAMPLES
    THEN CalculateGlobalAnomalyScore(features)
    ELSE LET anomaly_scores ==
                 [value_anomaly |-> 10000,
                  timing_anomaly |->
                      IF features.time_interval <= 0 \/ ~p.timing_mean_positive
                      THEN 5000 ELSE 1000,
                  sequence_anomaly |->
                      IF features.sequence_gap <= 0 THEN 8000 ELSE 1000,
                  signature_anomaly |->
                      (IF pattern.signature_length < 130 \/ pattern.signature_length > 132
                       THEN 3000 ELSE 0)
                      + (IF pattern.signature_entropy < 300 \/ pattern.signature_entropy > 450
                         THEN 2000 ELSE 0),
                  pattern_anomaly |->
                      (IF pattern.hour_of_day < 6 \/ pattern.hour_of_day > 22
                       THEN 2000 ELSE 0)
                      + (IF pattern.value_change_large THEN 3000 ELSE 0)]
         IN  [total_score |-> WeightedSum(anomaly_scores, Features) \div 100,
              anomaly_scores |-> anomaly_scores]

\* x > mean(g) + 2 stdev(g) for a list g of two or more entries:
\* n x > S  and  (n x - S)^2 (n - 1) > 4 n (n Q - S^2).
AboveTwoSigma(x, g) ==
    LET n == Len(g)
        S == SumOf(g)
        Q == SumSq(g)
    IN  /\ n * x > S
        /\ (n * x - S) * (n * x - S) * (n - 1) > 4 * n * (n * Q - S * S)

\* profile.anomaly_history[-20:]
RecentScores(h) ==
    IF Len(h) <= RECENT_SCORES THEN h
    ELSE SubSeq(h, Len(h) - RECENT_SCORES + 1, Len(h))

\* min(max(mean + 2 std, 0.3), 0.9) of the scores given, rounded down to the
\* grid of the scores, which leaves every comparison with a score as it is.
ClampedThreshold(scores) ==
    LET g == [i \in DOMAIN scores |-> scores[i] \div ScoreGrid]
        lo == THRESHOLD_MIN \div ScoreGrid
        hi == THRESHOLD_MAX \div ScoreGrid
    IN  IF AboveTwoSigma(lo, g) THEN THRESHOLD_MIN
        ELSE IF ~AboveTwoSigma(hi, g) THEN THRESHOLD_MAX
        ELSE ScoreGrid * (CHOOSE t \in lo..(hi - 1) :
                              ~AboveTwoSigma(t, g) /\ AboveTwoSigma(t + 1, g))

\* get_anomaly_threshold computed from the last 10 scores (the mutant of C25).
GetAnomalyThresholdLastTen(p) ==
    IF p = NoProfile \/ Len(p.anomaly_history) < MIN_SAMPLES
    THEN DEFAULT_THRESHOLD
    ELSE ClampedThreshold(SubSeq(p.anomaly_history, Len(p.anomaly_history) - 9,
                                 Len(p.anomaly_history)))

\* BayesianModel.get_anomaly_threshold with the profile it loads.
GetAnomalyThreshold(p) ==
    IF p = NoProfile \/ Len(p.anomaly_history) < MIN_SAMPLES
    THEN DEFAULT_THRESHOLD
    ELSE ClampedThreshold(RecentScores(p.anomaly_history))

\* update_profile: the profile it saves.
UpdateProfile(loaded, features, anomaly_score) ==
    LET p == IF loaded = NoProfile THEN NewMeterProfile ELSE loaded
        h == Append(p.anomaly_history, anomaly_score)
    IN  [sample_count |-> p.sample_count + 1,
         anomaly_history |-> IF Len(h) > HISTORY_MAX
                             THEN SubSeq(h, Len(h) - HISTORY_MAX + 1, Len(h))
                             ELSE h,
         timing_mean_positive |-> p.timing_mean_positive \/ features.time_interval > 0]

\* The reading a meter sends after last_reading.
ProfReading(m, last_reading, value, step, gap) ==
    [meterID |-> m,
     seq |-> (IF last_reading = <<>> THEN 0 ELSE last_reading.seq) + step,
     ts |-> (IF last_reading = <<>> THEN DayStart ELSE last_reading.ts) + gap,
     value |-> value,
     signature |-> [length |-> SignatureLength, entropy |-> 400]]

\* analyze_reading and the end of check_reading for one reading of value 100
\* that M1 sends 10 s after its last one, no other request being served.
AnalyzeInTurn(v) ==
    LET reading == ProfReading("M1", v.last, 100, 1, 10)
        features == ExtractFeatures(reading, v.last)
        pattern == ExtractPatternFeatures(reading, v.last)
    IN  [p |-> UpdateProfile(v.p, features,
                             CalculateAnomalyScore(features, pattern, v.p).total_score),
         last |-> reading]

\* k readings analysed in turn from v on.
RECURSIVE Advance(_, _)
Advance(v, k) ==
    IF k = 0 THEN v
    ELSE IF k = 1 THEN CHOOSE w \in {AnalyzeInTurn(x) : x \in {v}} : TRUE
    ELSE CHOOSE w \in {Advance(x, k - k \div 2) : x \in {Advance(v, k \div 2)}} : TRUE

\* The profile and last reading of M1 after n readings.
WarmProfile(n) == Advance([p |-> NoProfile, last |-> <<>>], n)

\* The readings M1 has sent before the behaviour starts.
WarmCounts == {0, 9, 20, 99}

IdleChecker ==
    [pc |-> "idle", meter |-> "none", reading |-> <<>>, features |-> <<>>,
     score |-> 0, threshold |-> 0, suspicious |-> FALSE, seen |-> <<>>,
     loaded |-> NoProfile]

InitProf ==
    /\ now = DayStart
    /\ ticks = 0
    /\ clients = <<>>
    /\ whitelist = {}
    /\ blacklist = {}
    /\ custom_rules = <<>>
    /\ call = [w \in Callers |-> IdleCall]
    /\ ncalls = 0
    /\ req = [t \in Threads |-> IdleReq]
    /\ nreq = 0
    /\ readings = <<>>
    /\ ids_seen = {}
    /\ forensic_seen = {}
    /\ published = <<>>
    /\ SseIdle
    /\ EnsIdle
    /\ feed = <<>>
    /\ profile = [k \in Checkers |-> IdleChecker]
    /\ \E n \in WarmCounts :
           \E w \in {WarmProfile(n)} :
               bayes = [meter_profiles |-> [m \in ProfMeters |->
                                               IF m = "M1" THEN w.p ELSE NoProfile],
                        last_readings |-> [m \in ProfMeters |->
                                              IF m = "M1" THEN w.last ELSE <<>>],
                        checks |-> 0]

profRest == <<now, ticks, rlVars, call, ncalls, pipeVars, sseVars, ensVars, feed>>

\* check_reading up to calculate_anomaly_score: the thread takes the last
\* reading of the meter, extracts the features, loads the profile and scores.
ScoreReading(k, m, value, step, gap) ==
    /\ profile[k].pc = "idle"
    /\ bayes.checks < MaxChecks
    /\ \E last_reading \in {bayes.last_readings[m]} :
        \E reading \in {ProfReading(m, last_reading, value, step, gap)} :
            \E features \in {ExtractFeatures(reading, last_reading)} :
                profile' = [profile EXCEPT ![k] =
                    [IdleChecker EXCEPT
                       !.pc = "scored", !.meter = m, !.reading = reading,
                       !.features = features,
                       !.score = CalculateAnomalyScore(
                                     features,
                                     ExtractPatternFeatures(reading, last_reading),
                                     bayes.meter_profiles[m]).total_score]]
    /\ bayes' = [bayes EXCEPT !.checks = @ + 1]
    /\ UNCHANGED profRest

\* get_anomaly_threshold and the comparison: the thread loads the profile
\* again.
JudgeReading(k) ==
    /\ profile[k].pc = "scored"
    /\ \E p \in {bayes.meter_profiles[profile[k].meter]} :
        \E threshold \in {GetAnomalyThreshold(p)} :
            profile' = [profile EXCEPT
                          ![k].pc = "judged",
                          ![k].threshold = threshold,
                          ![k].suspicious = profile[k].score > threshold,
                          ![k].seen = IF p = NoProfile THEN <<>> ELSE p.anomaly_history]
    /\ UNCHANGED <<bayes, profRest>>

\* update_profile, its load_meter_profile.
LoadProfile(k) ==
    /\ profile[k].pc = "judged"
    /\ profile' = [profile EXCEPT
                     ![k].pc = "loaded",
                     ![k].loaded = bayes.meter_profiles[profile[k].meter]]
    /\ UNCHANGED <<bayes, profRest>>

\* update_profile, its save_meter_profile (INSERT OR REPLACE), and the end of
\* check_reading, which keeps the reading as the last one of the meter.
SaveProfile(k) ==
    /\ profile[k].pc = "loaded"
    /\ bayes' = [bayes EXCEPT
                   !.meter_profiles[profile[k].meter] =
                       UpdateProfile(profile[k].loaded, profile[k].features,
                                     profile[k].score),
                   !.last_readings[profile[k].meter] = profile[k].reading]
    /\ profile' = [profile EXCEPT ![k].pc = "idle"]
    /\ UNCHANGED profRest

ProfValues == {100, 200}
ProfSteps == {0, 1}

NextProf ==
    \/ \E k \in Checkers, m \in ProfMeters, value \in ProfValues, step \in ProfSteps :
           ScoreReading(k, m, value, step, 10)
    \/ \E k \in Checkers : JudgeReading(k)
    \/ \E k \in Checkers : LoadProfile(k)
    \/ \E k \in Checkers : SaveProfile(k)

SpecProf == InitProf /\ [][NextProf]_vars


----------------------------------------------------------------------------
(* Properties of the profiler *)

\* The thread has compared the score of its reading with the threshold.
Judged(c) == c.pc \in {"judged", "loaded"} \/ (c.pc = "idle" /\ c.meter # "none")

\* C25: the threshold of every analysed reading lies in [0.3, 0.9]; it is 0.7
\* when the source had fewer than 10 recorded scores, and otherwise it is
\* mean + 2 std of the last 20 scores recorded before, clamped; the reading
\* is suspicious iff its score is strictly greater than this threshold.
C25_AdaptiveThreshold ==
    \A k \in Checkers :
        Judged(profile[k])
        => LET c == profile[k]
               n == Len(c.seen)
               g == [i \in 1..Min2(n, 20) |->
                        c.seen[n - Min2(n, 20) + i] \div ScoreGrid]
               t == c.threshold \div ScoreGrid
           IN  /\ c.threshold >= 3000
               /\ c.threshold <= 9000
               /\ n < 10 => c.threshold = 7000
               /\ n >= 10
                  => /\ c.threshold % ScoreGrid = 0
                     /\ c.threshold > 3000 => ~AboveTwoSigma(t, g)
                     /\ c.threshold < 9000 => AboveTwoSigma(t + 1, g)
               /\ c.suspicious <=> (c.score > c.threshold)

C25_Witness ==
    \E k \in Checkers :
        /\ Judged(profile[k])
        /\ Len(profile[k].seen) > 20
        /\ profile[k].seen[Len(profile[k].seen) - 20] # profile[k].seen[Len(profile[k].seen)]
        /\ profile[k].threshold > 3000
        /\ profile[k].threshold < 9000
        /\ profile[k].suspicious

SamplesOf(p) == IF p = NoProfile THEN 0 ELSE p.sample_count
HistoryOf(p) == IF p = NoProfile THEN <<>> ELSE p.anomaly_history

\* C26: the analysis of a reading, when it saves the profile, has increased
\* sample_count of the source by exactly one and appended its score as the
\* newest entry of the history, which keeps its newest 100 entries; the
\* profiles of the other sources are unchanged.
C26_OneSamplePerCall ==
    [][\A k \in Checkers :
           (profile[k].pc = "loaded" /\ profile'[k].pc = "idle")
           => LET m == profile[k].meter
                  h == Append(HistoryOf(bayes.meter_profiles[m]), profile[k].score)
                  h2 == HistoryOf(bayes'.meter_profiles[m])
              IN  /\ SamplesOf(bayes'.meter_profiles[m])
                         = SamplesOf(bayes.meter_profiles[m]) + 1
                  /\ Len(h2) = Min2(Len(h), 100)
                  /\ h2 = LastOf(h, Len(h2))
                  /\ \A o \in ProfMeters \ {m} :
                         bayes'.meter_profiles[o] = bayes.meter_profiles[o]]_vars


----------------------------------------------------------------------------
(* The statistical detector of the ensemble fed with the readings of two
   meters, next to a detector that is given the readings of M1 only. *)

MaxStat == 3

StatMeters == {"M1", "M2"}
StatValues == {10, 500}
StatGaps == {10, 300}
StatSteps == {1, 2}

NoStatResult == DetectionResult("statistical", FALSE, 0, 0, <<>>)

\* StatisticalDetector.__init__, and no reading sent yet.
NewStatistical ==
    [detector |-> [history |-> <<>>],
     alone |-> [history |-> <<>>],
     last_seq |-> [m \in StatMeters |-> 0],
     calls |-> 0,
     meter_id |-> "none",
     result |-> [m \in StatMeters |-> NoStatResult],
     result_alone |-> NoStatResult]

InitStat ==
    /\ now = 0
    /\ ticks = 0
    /\ clients = <<>>
    /\ whitelist = {}
    /\ blacklist = {}
    /\ custom_rules = <<>>
    /\ call = [w \in Callers |-> IdleCall]
    /\ ncalls = 0
    /\ req = [t \in Threads |-> IdleReq]
    /\ nreq = 0
    /\ readings = <<>>
    /\ ids_seen = {}
    /\ forensic_seen = {}
    /\ published = <<>>
    /\ SseIdle
    /\ DetIdle
    /\ ens = NewStatistical

statRest == <<ticks, rlVars, call, ncalls, pipeVars, sseVars, detVars>>

\* StatisticalDetector.detect(reading, meter_id) for the next reading of meter
\* m; the readings of M1 are also given to the detector that sees M1 alone.
StatDetect(m, value, gap, step) ==
    /\ ens.calls < MaxStat
    /\ now' = now + gap
    /\ \E reading \in {[value |-> value, ts |-> now + gap,
                        seq |-> ens.last_seq[m] + step]} :
        \E run \in {StatisticalDetect(ens.detector, reading)},
           own \in {StatisticalDetect(ens.alone, reading)} :
            ens' = [ens EXCEPT
                      !.detector = run.state,
                      !.alone = IF m = "M1" THEN own.state ELSE @,
                      !.last_seq[m] = reading.seq,
                      !.calls = @ + 1,
                      !.meter_id = m,
                      !.result[m] = run.result,
                      !.result_alone = IF m = "M1" THEN own.result ELSE @]
    /\ UNCHANGED statRest

NextStat ==
    \E m \in StatMeters, value \in StatValues, gap \in StatGaps, step \in StatSteps :
        StatDetect(m, value, gap, step)

SpecStat == InitStat /\ [][NextStat]_vars

\* C27: the result the statistical detector gives for a reading of M1 is the
\* result it gives when it is fed the readings of M1 only, whatever readings
\* of M2 are interleaved.
C27_OwnReadingsOnly == ens.result["M1"] = ens.result_alone


----------------------------------------------------------------------------
(* The background sweep of the rate limiter, with a record of the requests
   that were let through *)

MaxSweeps == 2

\* The clock of a server that has been up for a while.
SweepStart == 10000

SweepDt == {1, 3600, 3601}

Never == -1

InitSweep ==
    /\ now = SweepStart
    /\ ticks = 0
    /\ clients = <<>>
    /\ whitelist = {}
    /\ blacklist = {}
    /\ custom_rules = <<>>
    /\ call = [w \in Callers |-> IdleCall]
    /\ ncalls = 0
    /\ req = [t \in Threads |-> IdleReq]
    /\ nreq = 0
    /\ readings = <<>>
    /\ ids_seen = {}
    /\ forensic_seen = {}
    /\ published = <<>>
    /\ SseIdle
    /\ EnsIdle
    /\ bayes = [sample_count |-> 0, last_reading |-> <<>>]
    /\ profile = <<>>
    /\ feed = [admitted |-> [c \in Clients |-> Never],
               rated |-> [c \in Clients |-> Never],
               sweeps |-> 0, removed |-> {}, kept |-> {}]

\* is_allowed(client_ip) for a request of c; the record notes when a request
\* of c was last let through, and when the rate check last let one through
\* since the client's record was created.
AllowRequest(c) ==
    /\ ncalls < MaxCalls
    /\ \E r \in {IsAllowed(clients, whitelist, blacklist, custom_rules, c, now)} :
        /\ clients' = r.clients
        /\ feed' = [feed EXCEPT
                      !.admitted[c] = IF r.allowed THEN now ELSE @,
                      !.rated[c] = IF /\ r.allowed
                                      /\ c \notin whitelist
                                      /\ RuleFor(custom_rules, c).enabled
                                   THEN now ELSE @]
    /\ ncalls' = ncalls + 1
    /\ UNCHANGED <<now, ticks, whitelist, blacklist, custom_rules, call, pipeVars,
                   sseVars, ensVars, bayes, profile>>

\* _cleanup_loop: one run of _cleanup_expired_clients.
Sweep ==
    /\ feed.sweeps < MaxSweeps
    /\ clients' = DropExpired(clients, now)
    /\ feed' = [feed EXCEPT !.sweeps = @ + 1,
                            !.rated = [c \in Clients |->
                                          IF c \in DOMAIN clients' THEN @[c] ELSE Never],
                            !.removed = DOMAIN clients \ DOMAIN clients',
                            !.kept = DOMAIN clients']
    /\ UNCHANGED <<now, ticks, whitelist, blacklist, custom_rules, call, ncalls,
                   pipeVars, sseVars, ensVars, bayes, profile>>

NextSweep ==
    \/ \E c \in Clients : AllowRequest(c)
    \/ \E d \in SweepDt : Tick(d)
    \/ \E c \in Managed : AddToWhitelist(c)
    \/ \E c \in Managed, rule \in CustomRules : AddCustomRule(c, rule)
    \/ Sweep

SpecSweep == InitSweep /\ [][NextSweep]_vars

----------------------------------------------------------------------------
(* Properties of the sweep *)

SweepStep == feed'.sweeps # feed.sweeps

FrameOfSweep ==
    /\ \A c \in DOMAIN clients' : clients'[c] = clients[c]
    /\ whitelist' = whitelist
    /\ blacklist' = blacklist
    /\ custom_rules' = custom_rules

----------------------------------------------------------------------------
(* Properties of the ensemble's votes *)

FlaggedBy(results) == {i \in DOMAIN results : results[i].suspicious}

\* C30: the ensemble's suspicious flag is true iff the static weight of the
\* detectors that flagged the reading is strictly more than half of the total
\* weight; the majority vote reports consensus iff strictly more than half of
\* the detectors flagged; and the consensus score is
\* 0.4 max(#suspicious, #non-suspicious) / #detectors + 0.3 mean confidence
\* + 0.3 mean score (here up to the rounding of the three terms).
C30_VotesAndConsensus ==
    LET results == ens.result.detector_results
        n == Len(results)
        k == Cardinality(FlaggedBy(results))
        flagged_weight ==
            SumOf([i \in DOMAIN results |->
                      IF results[i].suspicious
                      THEN StaticWeights[results[i].detector_type] ELSE 0])
        total_weight ==
            SumOf([i \in DOMAIN results |-> StaticWeights[results[i].detector_type]])
        exact == 4000000 * Max2(k, n - k)
                 + 3 * SumOf([i \in DOMAIN results |-> results[i].confidence])
                 + 3 * SumOf([i \in DOMAIN results |-> results[i].score])
    IN  ens.calls > 0
        => /\ n = Len(Detectors)
           /\ ens.result.suspicious <=> (2 * flagged_weight > total_weight)
           /\ ens.result.voting_result.majority.consensus <=> (2 * k > n)
           /\ 10 * n * ens.result.consensus_score <= exact
           /\ exact < 10 * n * (ens.result.consensus_score + 3)

\* Detectors holding exactly half of the weight, and exactly half of the
\* detectors, flagged the reading.
C30_Witness ==
    LET results == ens.result.detector_results
    IN  /\ ens.calls > WarmUp
        /\ {results[i].detector_type : i \in FlaggedBy(results)}
               = {"statistical", "temporal"}
        /\ ~ens.result.suspicious
        /\ ~ens.result.voting_result.majority.consensus
        /\ ens.result.consensus_score > 200000

----------------------------------------------------------------------------
(* Properties of the handler's error paths and of the merged verdict        *)
(* (specification Spec).                                                    *)

IdsVerdicts == {IdsVerdict(o) : o \in IdsOutcomes}

AfterForensics(r) == r.pc \in {"store", "publish", "done"}

StoredWith(r, v) ==
    /\ r.status = 200
    /\ r.resp.ok
    /\ OwnRow(r)
    /\ readings[r.row].suspicious = v.suspicious
    /\ readings[r.row].score = v.score
    /\ readings[r.row].reasons = v.reasons
    /\ r.resp.suspicious = v.suspicious
    /\ r.resp.score = Round3(v.score)
    /\ r.resp.reasons = v.reasons

----------------------------------------------------------------------------
(* Properties of the admission controller's records (specification SpecRL). *)

\* The calls of is_allowed that have returned.
Decided(k) == k.pc \in {"done", "retry"}

\* The record is_allowed works on: the client's, or the one it creates.
RecordBefore(k) == IF k.pre = NoInfo THEN NewClientInfo ELSE k.pre

UnderDefaultRule(c) == RuleFor(custom_rules, c) = default_rule

RejectedUnderPenalty(k) ==
    /\ Decided(k)
    /\ ~k.allowed
    /\ ~k.bl
    /\ ~k.wl
    /\ k.pre # NoInfo
    /\ k.at < k.pre.penalty_until

\* The call found its client, on neither list and under no penalty, with the
\* window of the rule in force full.
FoundWindowFull(k) ==
    /\ ~k.bl
    /\ ~k.wl
    /\ k.rule.enabled
    /\ ~(k.at < RecordBefore(k).penalty_until)
    /\ Len(CleanupRequestHistory(RecordBefore(k).request_history, k.at,
                                 k.rule.window_size))
           >= k.rule.requests_per_minute

\* C33: a call rejected because its client is under penalty leaves the
\* client's record as it found it (penalty_until, violation_count,
\* last_violation, request_history, burst_tokens, last_request and
\* request_count); a call leaves penalty_until or violation_count changed
\* only if it is rejected on finding the window full.
C33_PenaltyRejectionFrame ==
    \A w \in Callers :
        LET k == call[w]
        IN  /\ RejectedUnderPenalty(k) => k.post = k.pre
            /\ (/\ Decided(k)
                 /\ k.post # NoInfo
                 /\ \/ k.post.penalty_until # RecordBefore(k).penalty_until
                    \/ k.post.violation_count # RecordBefore(k).violation_count)
               => /\ ~k.allowed
                  /\ FoundWindowFull(k)
                  /\ k.post.penalty_until = k.at + k.rule.penalty_duration
                  /\ k.post.violation_count = RecordBefore(k).violation_count + 1

\* A request rejected under a penalty that was started earlier.
C33_Witness ==
    \E w \in Callers :
        /\ RejectedUnderPenalty(call[w])
        /\ call[w].pre.violation_count = 1
        /\ call[w].pre.last_violation < call[w].at
        /\ call[w].post.penalty_until = call[w].pre.penalty_until
        /\ call[w].post.request_history = call[w].pre.request_history

----------------------------------------------------------------------------
(* The sweep and the penalties: the limiter of SpecSweep, started when the  *)
(* forwarder has had all but one request of its window admitted             *)
(* (specification SpecPen).                                                 *)

InitPen ==
    /\ now = SweepStart
    /\ ticks = 0
    /\ clients = [c \in {"ip1"} |->
                     AdmitN(NewClientInfo, default_rule.requests_per_minute - 1,
                            SweepStart)]
    /\ whitelist = {}
    /\ blacklist = {}
    /\ custom_rules = <<>>
    /\ call = [w \in Callers |-> IdleCall]
    /\ ncalls = 0
    /\ req = [t \in Threads |-> IdleReq]
    /\ nreq = 0
    /\ readings = <<>>
    /\ ids_seen = {}
    /\ forensic_seen = {}
    /\ published = <<>>
    /\ SseIdle
    /\ EnsIdle
    /\ bayes = [sample_count |-> 0, last_reading |-> <<>>]
    /\ profile = <<>>
    /\ feed = [admitted |-> [c \in Clients |-> IF c = "ip1" THEN SweepStart ELSE Never],
               rated |-> [c \in Clients |-> IF c = "ip1" THEN SweepStart ELSE Never],
               sweeps |-> 0, removed |-> {}, kept |-> {}]

SpecPen == InitPen /\ [][NextSweep]_vars

UnderPenalty(c) == c \in DOMAIN clients /\ now < clients[c].penalty_until

\* C34: a client under the default rule whose penalty is running has had a
\* request admitted by the rate check within the last 3600 s, and a run of
\* the sweep leaves its record in the table, unchanged.
C34_SweepKeepsPenalised ==
    /\ [](\A c \in Clients :
             (UnderDefaultRule(c) /\ UnderPenalty(c))
             => now - clients[c].last_request <= 3600)
    /\ [][SweepStep
          => \A c \in Clients :
                 (UnderDefaultRule(c) /\ UnderPenalty(c))
                 => /\ c \in DOMAIN clients'
                    /\ clients'[c] = clients[c]]_vars

\* A sweep has run during the forwarder's penalty and has kept its record.
C34_Witness ==
    /\ feed.sweeps > 0
    /\ "ip1" \in feed.kept
    /\ UnderDefaultRule("ip1")
    /\ UnderPenalty("ip1")
    /\ clients["ip1"].violation_count = 1
    /\ now > clients["ip1"].last_violation

----------------------------------------------------------------------------
(* Properties of the handler's calls of the forensic engine and of the      *)
(* store (specification Spec).                                              *)

\* The attack patterns the engine finds for a reading whose sequence evidence
\* is seq_evidence, whatever its signature evidence.
ReplayFound(m, seq_evidence) ==
    \E other \in {<<>>, <<Evidence("signature_reuse", 9000)>>} :
        \E i \in DOMAIN DetectAttackPatterns(m, seq_evidence \o other, now) :
            DetectAttackPatterns(m, seq_evidence \o other, now)[i].pattern_type
                = "replay_attack"

\* C35: every request that has called the forensic engine called it with its
\* seq above the last_seq its own sequence check had read; the engine then
\* finds no sequence_rollback evidence, hence no replay_attack pattern.
C35_NoRollbackInPipeline ==
    \A t \in Threads :
        LET r == req[t]
        IN  r.forensic_called
            => /\ r.seq > r.last_seq
               /\ "sequence_rollback" \notin r.evidence
               /\ "sequence_rollback" \notin
                      EvidenceTypes(AnalyzeSequencePatterns(r.seq, r.last_seq))
               /\ ~ReplayFound(r.meter, AnalyzeSequencePatterns(r.seq, r.last_seq))

\* The engine has analysed a reading whose seq is above the last_seq its
\* request had read but not above the source's last stored seq, another
\* request having stored a reading in between.
C35_Witness ==
    \E t \in Threads :
        /\ req[t].pc = "store"
        /\ req[t].forensic_called
        /\ ~req[t].forensic_failed
        /\ req[t].seq > req[t].last_seq
        /\ req[t].seq <= LastSeq(readings, req[t].meter)
        /\ req[t].evidence # {}

\* The verdict the handler stores for the IDS verdict v and the forensic
\* result fr, as the claim states it.
MergedAsStated(merged, v, fr) ==
    /\ merged.suspicious <=> (v.suspicious \/ fr.anomaly_detected)
    /\ (fr.anomaly_detected /\ ~v.suspicious)
           => /\ merged.score = Max2(v.score, fr.anomaly_score)
              /\ merged.reasons = v.reasons \o fr.anomaly_reasons
    /\ v.suspicious
           => /\ merged.score = v.score
              /\ merged.reasons = v.reasons
    /\ (~v.suspicious /\ ~fr.anomaly_detected) => merged = v

----------------------------------------------------------------------------
(* A source that sends a reading again: submit_reading with the IDS, the    *)
(* forensic engine and a store whose write can fail, one request at a time  *)
(* (specification SpecRetry).                                               *)

MaxTries == 3            \* requests the source sends per behaviour

RetryGaps == {1, MAX_TIMESTAMP_DRIFT + 1}

RetryValues == {100, 103}

\* A reading signed by its source: the signature is that of the signed
\* fields.
SignedReading(seq, ts, value) ==
    [meterID |-> "M1", seq |-> seq, ts |-> ts, value |-> value,
     signature |-> [id |-> <<seq, ts, value>>, hex |-> TRUE,
                    length |-> SignatureLength]]

NoTry == [reading |-> <<>>, status |-> 0, last_seq |-> 0, suspicious |-> FALSE,
          evidence |-> {}, forensic_failed |-> FALSE, row |-> 0]

InitRetry ==
    /\ now = 1000
    /\ ticks = 0
    /\ clients = <<>>
    /\ whitelist = {}
    /\ blacklist = {}
    /\ custom_rules = <<>>
    /\ call = [w \in Callers |-> IdleCall]
    /\ ncalls = 0
    /\ req = [t \in Threads |-> IdleReq]
    /\ nreq = 0
    /\ readings = <<>>
    /\ ids_seen = {}
    /\ forensic_seen = {}
    /\ published = <<>>
    /\ SseIdle
    /\ EnsIdle
    /\ bayes = [sample_count |-> 0, last_reading |-> <<>>]
    /\ profile = <<>>
    /\ feed = [tries |-> 0, evidence_log |-> <<>>, last |-> NoTry]

retryRest ==
    <<ticks, rlVars, call, ncalls, req, nreq, ids_seen, forensic_seen,
      published, sseVars, ensVars>>

\* submit_reading for one reading, t being the time of the request: the
\* freshness and sequence checks, /check of the IDS (which updates its profile
\* and its last-reading cache), forensics.analyze_reading (which records its
\* evidence and updates the meter's profile, or raises), store_reading (whose
\* write can fail) and the answer.
HandleReading(reading, t, raises, fails) ==
    \E last_seq \in {GetLastSeq(readings, reading.meterID, FALSE)} :
      \E ids \in {IdsVerdict(BayesAnalyzeReading(reading, bayes.last_reading))},
         evidence_list \in {AnalyzeReading(profile, reading, last_seq, t)} :
        \E verdict \in {IF raises THEN ids
                         ELSE MergeForensic(ids, ForensicResult(evidence_list))} :
          \E w \in {StoreReading(readings,
                                  RowOf(reading.meterID, reading.seq, verdict),
                                  fails)} :
            IF ~IsTimestampFresh(reading.ts, MAX_TIMESTAMP_DRIFT, t)
            THEN /\ feed' = [feed EXCEPT !.tries = @ + 1,
                                         !.last = [NoTry EXCEPT !.reading = reading,
                                                                !.status = 400]]
                 /\ UNCHANGED <<readings, bayes, profile>>
            ELSE IF reading.seq <= last_seq
            THEN /\ feed' = [feed EXCEPT !.tries = @ + 1,
                                         !.last = [NoTry EXCEPT !.reading = reading,
                                                                !.status = 409,
                                                                !.last_seq = last_seq]]
                 /\ UNCHANGED <<readings, bayes, profile>>
            ELSE /\ bayes' = [sample_count |-> bayes.sample_count + 1,
                              last_reading |-> reading]
                 /\ profile' = IF raises THEN profile
                               ELSE UpdateMeterProfile(profile, reading)
                 /\ readings' = w.rows
                 /\ feed' = [tries |-> feed.tries + 1,
                             evidence_log |->
                                 IF raises THEN feed.evidence_log
                                 ELSE feed.evidence_log
                                      \o [i \in DOMAIN evidence_list |->
                                              evidence_list[i].evidence_type],
                             last |-> [reading |-> reading,
                                       status |-> IF w.ok THEN 200 ELSE 500,
                                       last_seq |-> last_seq,
                                       suspicious |-> verdict.suspicious,
                                       evidence |-> IF raises THEN {}
                                                    ELSE EvidenceTypes(evidence_list),
                                       forensic_failed |-> raises,
                                       row |-> IF w.ok THEN Len(w.rows) ELSE 0]]

\* The source signs and sends a reading.
SubmitSigned(seq, value, gap, raises, fails) ==
    /\ feed.tries < MaxTries
    /\ now' = now + gap
    /\ HandleReading(SignedReading(seq, now + gap, value), now + gap, raises, fails)
    /\ UNCHANGED retryRest

\* The source sends its last request once more, byte for byte.
Resubmit(gap, raises, fails) ==
    /\ feed.tries < MaxTries
    /\ feed.last.reading # <<>>
    /\ now' = now + gap
    /\ HandleReading(feed.last.reading, now + gap, raises, fails)
    /\ UNCHANGED retryRest

NextRetry ==
    \/ \E seq \in 1..MaxSeq, value \in RetryValues, gap \in RetryGaps,
          raises \in BOOLEAN, fails \in BOOLEAN :
           SubmitSigned(seq, value, gap, raises, fails)
    \/ \E gap \in RetryGaps, raises \in BOOLEAN, fails \in BOOLEAN :
           Resubmit(gap, raises, fails)

SpecRetry == InitRetry /\ [][NextRetry]_vars

----------------------------------------------------------------------------
(* Properties of the resubmission after a failed write *)

RequestStep == feed'.tries # feed.tries

\* The last request was scored, the engine's analysis included, and then
\* answered 500.
ScoredThenFailed(k) == k.status = 500 /\ ~k.forensic_failed

----------------------------------------------------------------------------
(* The profiler's statistics: one source's readings analysed in turn, the   *)
(* profile kept with its means, extremes and deviations (specification      *)
(* SpecStd).  Values and means are in hundredths, scores in 1/10000.        *)

MaxStd == 12             \* readings analysed per behaviour

StdValues == {100, 200}

\* update_profile: the profile created for a meter that has none.
NewStatProfile ==
    [value_stats |-> [mean |-> 0, std |-> 0, min |-> 0, max |-> 0],
     timing_stats |-> [mean |-> 0, std |-> 0],
     sequence_stats |-> [mean |-> 0, std |-> 0],
     sample_count |-> 0]

\* (1 - alpha) * mean + alpha * x with alpha = 0.1, to the hundredth.
Ema(mean, x) == (9 * mean + x) \div 10

\* update_profile's value statistics with the deviation from the mean kept as
\* std (the mutant of C39).
UpdateValueStatsWithStd(stats, value) ==
    [mean |-> Ema(stats.mean, value),
     std |-> Abs(value - stats.mean),
     min |-> IF stats.min # 0 THEN Min2(stats.min, value) ELSE value,
     max |-> Max2(stats.max, value)]

\* update_profile: the value statistics after a reading.
UpdateValueStats(stats, value) ==
    [mean |-> Ema(stats.mean, value),
     std |-> stats.std,
     min |-> IF stats.min # 0 THEN Min2(stats.min, value) ELSE value,
     max |-> Max2(stats.max, value)]

\* update_profile: the timing and the sequence statistics after a reading.
UpdateGapStats(stats, gap) ==
    IF gap > 0 THEN [mean |-> Ema(stats.mean, gap), std |-> stats.std]
    ELSE stats

\* update_profile: the statistics and the sample count after a reading.
UpdateStatistics(loaded, features) ==
    LET p == IF loaded = <<>> THEN NewStatProfile ELSE loaded
    IN  [value_stats |-> UpdateValueStats(p.value_stats, features.value),
         timing_stats |-> UpdateGapStats(p.timing_stats, features.time_interval),
         sequence_stats |-> UpdateGapStats(p.sequence_stats, features.sequence_gap),
         sample_count |-> p.sample_count + 1]

\* calculate_value_anomaly: the z-score, in hundredths.
ValueZScore(value, stats) ==
    IF stats.std > 0 THEN (100 * Abs(value - stats.mean)) \div stats.std ELSE 0

\* normal_cdf, in 1/10000, by steps of half a deviation.
NormalCdf(z) ==
    IF z < 50 THEN 5000
    ELSE IF z < 100 THEN 6915
    ELSE IF z < 150 THEN 8413
    ELSE IF z < 200 THEN 9332
    ELSE IF z < 250 THEN 9772
    ELSE IF z < 300 THEN 9938
    ELSE 9987

\* calculate_value_anomaly
CalculateValueAnomaly(value, stats) ==
    Min2(2 * (10000 - NormalCdf(ValueZScore(value, stats))), 10000)

NoStdResult == [value |-> 0, mean |-> 0, profiled |-> FALSE, z_score |-> 0,
                value_anomaly |-> 0]

InitStd ==
    /\ now = 1000
    /\ ticks = 0
    /\ clients = <<>>
    /\ whitelist = {}
    /\ blacklist = {}
    /\ custom_rules = <<>>
    /\ call = [w \in Callers |-> IdleCall]
    /\ ncalls = 0
    /\ req = [t \in Threads |-> IdleReq]
    /\ nreq = 0
    /\ readings = <<>>
    /\ ids_seen = {}
    /\ forensic_seen = {}
    /\ published = <<>>
    /\ SseIdle
    /\ EnsIdle
    /\ bayes = [sample_count |-> 0, last_reading |-> <<>>]
    /\ profile = <<>>
    /\ feed = [analysed |-> 0, last |-> NoStdResult]

stdRest ==
    <<ticks, rlVars, call, ncalls, req, nreq, readings, ids_seen, forensic_seen,
      published, sseVars, ensVars, bayes>>

\* analyze_reading for the source's next reading, sent 10 s after the last
\* one with the next seq: the value score is taken from the profile once it
\* has MIN_SAMPLES samples (from the global priors before), and
\* update_profile follows.
AnalyzeValue(v) ==
    /\ feed.analysed < MaxStd
    /\ now' = now + 10
    /\ \E features \in {[value |-> 100 * v,
                          time_interval |-> IF feed.analysed = 0 THEN 0
                                            ELSE 100 * 10,
                          sequence_gap |-> IF feed.analysed = 0 THEN 0
                                           ELSE 100 * 1]} :
        /\ feed' = [analysed |-> feed.analysed + 1,
                    last |-> IF profile # <<>> /\ profile.sample_count >= MIN_SAMPLES
                             THEN [value |-> features.value,
                                   mean |-> profile.value_stats.mean,
                                   profiled |-> TRUE,
                                   z_score |-> ValueZScore(features.value,
                                                           profile.value_stats),
                                   value_anomaly |->
                                       CalculateValueAnomaly(features.value,
                                                             profile.value_stats)]
                             ELSE [NoStdResult EXCEPT !.value = features.value]]
        /\ profile' = UpdateStatistics(profile, features)
    /\ UNCHANGED stdRest

NextStd == \E v \in StdValues : AnalyzeValue(v)

SpecStd == InitStd /\ [][NextStd]_vars

\* C39: the three std fields of a profile are 0 after every update; a reading
\* scored against a profile of at least MIN_SAMPLES samples has z-score 0 and
\* value score 1.0, whatever its value.
C39_StdStaysZero ==
    /\ profile # <<>>
           => /\ profile.value_stats.std = 0
              /\ profile.timing_stats.std = 0
              /\ profile.sequence_stats.std = 0
    /\ feed.last.profiled
           => /\ feed.last.z_score = 0
              /\ feed.last.value_anomaly = 10000

\* A reading whose value is far above the mean of its source's profile, of
\* more than MIN_SAMPLES samples, has been given the value score 1.0.
C39_Witness ==
    /\ feed.last.profiled
    /\ feed.analysed > MIN_SAMPLES
    /\ feed.last.value > 19 * (feed.last.mean \div 10)
    /\ feed.last.value_anomaly = 10000
    /\ profile.value_stats.min < profile.value_stats.max
    /\ profile.timing_stats.mean > 0

====
